---- MODULE Spec2Model ----
(***************************************************************************)
(* The chatbot core of the expense tracker: the per-user conversation      *)
(* context (context_manager.py), the intent resolver with its remote and   *)
(* fallback stages (chat_logic.py) and the natural-language query gate     *)
(* (nlp_to_sql.py).                                                        *)
(*                                                                         *)
(* Python values are modelled by what the code does with them: a JSON      *)
(* value keeps its type tag, so that truthiness, comparisons and method    *)
(* calls behave as they do in Python; a string is looked at as its         *)
(* characters wherever the code lower-cases it, strips it or searches it.  *)
(***************************************************************************)
EXTENDS Integers, Sequences, FiniteSets, TLC

VARIABLES
    now,        \* datetime.utcnow(), in whole seconds
    store,      \* _context_store: user -> context object (NoObj: no entry)
    heap,       \* the ConversationContext objects
    ops,        \* calls made so far
    maxops,     \* calls the run makes at most
    fb,         \* a call of simple_intent_fallback: its arguments and its result
    thr,        \* the process_chat_message calls in flight, one slot per thread
    db,         \* the transactions table
    nlp,        \* a call of execute_nlp_query: the translator's answer and the result
    ret,        \* a call of a function that only computes: its arguments and its result
    serial      \* the caller runs the turns of one user one at a time

ctxVars == <<now, store, heap>>
vars == <<now, store, heap, ops, maxops, fb, thr, db, nlp, ret, serial>>

(***************************************************************************)
(* Bounds of the model.                                                    *)
(***************************************************************************)
NObjs == 3
MaxCtxOps == 5
MaxLogOps == 7
MaxTurns == 2
MaxFallbackCalls == 1
MaxNlpCalls == 1
MaxMsgOps == 4
MaxFollowOps == 3
MaxUserOps == 3
MaxRaceTurns == 3
MaxBudgets == 2
MaxMonths == 3
MaxPoints == 4
MaxWindow == 3

Users == {"u1", "u2"}
Threads == {"t1", "t2", "t3", "t4"}
ThreadUser(t) == IF t = "t2" THEN "u2" ELSE "u1"
ObjIds == 1..NObjs
NoObj == 0

(***************************************************************************)
(* JSON / Python values.  t is the type; n the integer part of a number,   *)
(* the truth value of a bool or the length of a list or dict; f the        *)
(* fraction digits of a number (no trailing zero); s the text of a string. *)
(***************************************************************************)
JVal(t, n, s, f) == [t |-> t, n |-> n, s |-> s, f |-> f]
None == JVal("null", 0, "", <<>>)
Absent == JVal("absent", 0, "", <<>>)
JNum(n) == JVal("num", n, "", <<>>)
JDec(n, f) == JVal("num", n, "", f)
JStr(s) == JVal("str", 0, s, <<>>)
JTrue == JVal("bool", 1, "", <<>>)
JFalse == JVal("bool", 0, "", <<>>)
JList(n) == JVal("list", n, "", <<>>)

\* bool(v) in Python
Truthy(v) ==
    CASE v.t = "null" -> FALSE
      [] v.t = "absent" -> FALSE
      [] v.t = "bool" -> v.n = 1
      [] v.t = "num" -> v.n # 0 \/ v.f # <<>>
      [] v.t = "str" -> v.s # ""
      [] OTHER -> v.n > 0

\* A dict: every key of the model, Absent where the dict has no such key.
Keys == {"intent", "transaction", "amount", "category", "description", "type",
         "message", "old_amount", "new_amount", "topic",
         "sql", "explanation", "columns", "safe"}
EmptyDict == [k \in Keys |-> Absent]
Get(d, k, default) == IF d[k].t = "absent" THEN default ELSE d[k]
DictLen(d) == Cardinality({k \in Keys : d[k].t # "absent"})

\* A JSON document: a dict (v.t = "dict", its entries in d) or another value.
JObj(d) == [v |-> JVal("dict", DictLen(d), "", <<>>), d |-> d]
JDoc(v) == [v |-> v, d |-> EmptyDict]
NoneDoc == JDoc(None)
IsDict(x) == x.v.t = "dict"

(***************************************************************************)
(* Strings.  Chars gives the characters of every string the model lower-   *)
(* cases, strips or searches.                                              *)
(***************************************************************************)
\* BEGIN STRINGS
FallbackTexts ==
    { "update food from 1200 to 500", "change 300", "update my budget",
      "edit and delete 500", "delete the 500 transaction",
      "remove my food expense", "cancel", "add 500 for food",
      "Add 12.50 for FOOD", "add food", "add 500", "how much have i spent",
      "spent 200 on rent", "show my summary", "total income", "expenses",
      "budget status", "will i exceed my budget", "forecast next month",
      "predict income", "hello", "update delete add", "add 0 for food",
      "modify 10 20 30 salary", "add 5. for fast food", "address book",
      "the sum total", "remove 20 and 30 from rent" }
UpdateWords == <<"update", "change", "modify", "edit">>
DeleteWords == <<"delete", "remove", "cancel">>
AddWords == <<"add", "spent", "paid", "bought", "transaction">>
SummaryWords == <<"summary", "total", "spent", "expenses">>
BudgetFutureWords == <<"will", "exceed", "predict", "future">>
ForecastWords == <<"forecast", "predict", "next month">>
OtherWords == {"income", "expense", "budget"}
CategoryNames == {"Food", "Salary", "Rent", "Fast Food"}
\* END STRINGS

\* BEGIN CHARS
Chars(s) ==
    CASE s = "update food from 1200 to 500" -> <<"u", "p", "d", "a", "t", "e", " ", "f", "o", "o", "d", " ", "f", "r", "o", "m", " ", "1", "2", "0", "0", " ", "t", "o", " ", "5", "0", "0">>
      [] s = "change 300" -> <<"c", "h", "a", "n", "g", "e", " ", "3", "0", "0">>
      [] s = "update my budget" -> <<"u", "p", "d", "a", "t", "e", " ", "m", "y", " ", "b", "u", "d", "g", "e", "t">>
      [] s = "edit and delete 500" -> <<"e", "d", "i", "t", " ", "a", "n", "d", " ", "d", "e", "l", "e", "t", "e", " ", "5", "0", "0">>
      [] s = "delete the 500 transaction" -> <<"d", "e", "l", "e", "t", "e", " ", "t", "h", "e", " ", "5", "0", "0", " ", "t", "r", "a", "n", "s", "a", "c", "t", "i", "o", "n">>
      [] s = "remove my food expense" -> <<"r", "e", "m", "o", "v", "e", " ", "m", "y", " ", "f", "o", "o", "d", " ", "e", "x", "p", "e", "n", "s", "e">>
      [] s = "cancel" -> <<"c", "a", "n", "c", "e", "l">>
      [] s = "add 500 for food" -> <<"a", "d", "d", " ", "5", "0", "0", " ", "f", "o", "r", " ", "f", "o", "o", "d">>
      [] s = "Add 12.50 for FOOD" -> <<"A", "d", "d", " ", "1", "2", ".", "5", "0", " ", "f", "o", "r", " ", "F", "O", "O", "D">>
      [] s = "add food" -> <<"a", "d", "d", " ", "f", "o", "o", "d">>
      [] s = "add 500" -> <<"a", "d", "d", " ", "5", "0", "0">>
      [] s = "how much have i spent" -> <<"h", "o", "w", " ", "m", "u", "c", "h", " ", "h", "a", "v", "e", " ", "i", " ", "s", "p", "e", "n", "t">>
      [] s = "spent 200 on rent" -> <<"s", "p", "e", "n", "t", " ", "2", "0", "0", " ", "o", "n", " ", "r", "e", "n", "t">>
      [] s = "show my summary" -> <<"s", "h", "o", "w", " ", "m", "y", " ", "s", "u", "m", "m", "a", "r", "y">>
      [] s = "total income" -> <<"t", "o", "t", "a", "l", " ", "i", "n", "c", "o", "m", "e">>
      [] s = "expenses" -> <<"e", "x", "p", "e", "n", "s", "e", "s">>
      [] s = "budget status" -> <<"b", "u", "d", "g", "e", "t", " ", "s", "t", "a", "t", "u", "s">>
      [] s = "will i exceed my budget" -> <<"w", "i", "l", "l", " ", "i", " ", "e", "x", "c", "e", "e", "d", " ", "m", "y", " ", "b", "u", "d", "g", "e", "t">>
      [] s = "forecast next month" -> <<"f", "o", "r", "e", "c", "a", "s", "t", " ", "n", "e", "x", "t", " ", "m", "o", "n", "t", "h">>
      [] s = "predict income" -> <<"p", "r", "e", "d", "i", "c", "t", " ", "i", "n", "c", "o", "m", "e">>
      [] s = "hello" -> <<"h", "e", "l", "l", "o">>
      [] s = "update delete add" -> <<"u", "p", "d", "a", "t", "e", " ", "d", "e", "l", "e", "t", "e", " ", "a", "d", "d">>
      [] s = "add 0 for food" -> <<"a", "d", "d", " ", "0", " ", "f", "o", "r", " ", "f", "o", "o", "d">>
      [] s = "modify 10 20 30 salary" -> <<"m", "o", "d", "i", "f", "y", " ", "1", "0", " ", "2", "0", " ", "3", "0", " ", "s", "a", "l", "a", "r", "y">>
      [] s = "add 5. for fast food" -> <<"a", "d", "d", " ", "5", ".", " ", "f", "o", "r", " ", "f", "a", "s", "t", " ", "f", "o", "o", "d">>
      [] s = "address book" -> <<"a", "d", "d", "r", "e", "s", "s", " ", "b", "o", "o", "k">>
      [] s = "the sum total" -> <<"t", "h", "e", " ", "s", "u", "m", " ", "t", "o", "t", "a", "l">>
      [] s = "remove 20 and 30 from rent" -> <<"r", "e", "m", "o", "v", "e", " ", "2", "0", " ", "a", "n", "d", " ", "3", "0", " ", "f", "r", "o", "m", " ", "r", "e", "n", "t">>
      [] s = "update" -> <<"u", "p", "d", "a", "t", "e">>
      [] s = "change" -> <<"c", "h", "a", "n", "g", "e">>
      [] s = "modify" -> <<"m", "o", "d", "i", "f", "y">>
      [] s = "edit" -> <<"e", "d", "i", "t">>
      [] s = "delete" -> <<"d", "e", "l", "e", "t", "e">>
      [] s = "remove" -> <<"r", "e", "m", "o", "v", "e">>
      [] s = "add" -> <<"a", "d", "d">>
      [] s = "spent" -> <<"s", "p", "e", "n", "t">>
      [] s = "paid" -> <<"p", "a", "i", "d">>
      [] s = "bought" -> <<"b", "o", "u", "g", "h", "t">>
      [] s = "transaction" -> <<"t", "r", "a", "n", "s", "a", "c", "t", "i", "o", "n">>
      [] s = "summary" -> <<"s", "u", "m", "m", "a", "r", "y">>
      [] s = "total" -> <<"t", "o", "t", "a", "l">>
      [] s = "will" -> <<"w", "i", "l", "l">>
      [] s = "exceed" -> <<"e", "x", "c", "e", "e", "d">>
      [] s = "predict" -> <<"p", "r", "e", "d", "i", "c", "t">>
      [] s = "future" -> <<"f", "u", "t", "u", "r", "e">>
      [] s = "forecast" -> <<"f", "o", "r", "e", "c", "a", "s", "t">>
      [] s = "next month" -> <<"n", "e", "x", "t", " ", "m", "o", "n", "t", "h">>
      [] s = "income" -> <<"i", "n", "c", "o", "m", "e">>
      [] s = "expense" -> <<"e", "x", "p", "e", "n", "s", "e">>
      [] s = "budget" -> <<"b", "u", "d", "g", "e", "t">>
      [] s = "Food" -> <<"F", "o", "o", "d">>
      [] s = "Salary" -> <<"S", "a", "l", "a", "r", "y">>
      [] s = "Rent" -> <<"R", "e", "n", "t">>
      [] s = "Fast Food" -> <<"F", "a", "s", "t", " ", "F", "o", "o", "d">>
      [] s = "SELECT amount FROM transactions" -> <<"S", "E", "L", "E", "C", "T", " ", "a", "m", "o", "u", "n", "t", " ", "F", "R", "O", "M", " ", "t", "r", "a", "n", "s", "a", "c", "t", "i", "o", "n", "s">>
      [] s = "select created_at from transactions" -> <<"s", "e", "l", "e", "c", "t", " ", "c", "r", "e", "a", "t", "e", "d", "_", "a", "t", " ", "f", "r", "o", "m", " ", "t", "r", "a", "n", "s", "a", "c", "t", "i", "o", "n", "s">>
      [] s = "DELETE FROM transactions" -> <<"D", "E", "L", "E", "T", "E", " ", "F", "R", "O", "M", " ", "t", "r", "a", "n", "s", "a", "c", "t", "i", "o", "n", "s">>
      [] s = "drop table users" -> <<"d", "r", "o", "p", " ", "t", "a", "b", "l", "e", " ", "u", "s", "e", "r", "s">>
      [] s = "Select name From budgets; Update budgets set amount = 0" -> <<"S", "e", "l", "e", "c", "t", " ", "n", "a", "m", "e", " ", "F", "r", "o", "m", " ", "b", "u", "d", "g", "e", "t", "s", ";", " ", "U", "p", "d", "a", "t", "e", " ", "b", "u", "d", "g", "e", "t", "s", " ", "s", "e", "t", " ", "a", "m", "o", "u", "n", "t", " ", "=", " ", "0">>
      [] s = "SELECT SUM(amount) FROM transactions WHERE type = 'expense'" -> <<"S", "E", "L", "E", "C", "T", " ", "S", "U", "M", "(", "a", "m", "o", "u", "n", "t", ")", " ", "F", "R", "O", "M", " ", "t", "r", "a", "n", "s", "a", "c", "t", "i", "o", "n", "s", " ", "W", "H", "E", "R", "E", " ", "t", "y", "p", "e", " ", "=", " ", "'", "e", "x", "p", "e", "n", "s", "e", "'">>
      [] s = "" -> <<>>
      [] s = "INSERT" -> <<"I", "N", "S", "E", "R", "T">>
      [] s = "UPDATE" -> <<"U", "P", "D", "A", "T", "E">>
      [] s = "DELETE" -> <<"D", "E", "L", "E", "T", "E">>
      [] s = "DROP" -> <<"D", "R", "O", "P">>
      [] s = "ALTER" -> <<"A", "L", "T", "E", "R">>
      [] s = "CREATE" -> <<"C", "R", "E", "A", "T", "E">>
      [] s = "TRUNCATE" -> <<"T", "R", "U", "N", "C", "A", "T", "E">>
      [] s = "EXEC" -> <<"E", "X", "E", "C">>
      [] s = "food" -> <<"f", "o", "o", "d">>
      [] s = " FOOD " -> <<" ", "F", "O", "O", "D", " ">>
      [] s = "Travel" -> <<"T", "r", "a", "v", "e", "l">>
      [] s = "  " -> <<" ", " ">>
      [] s = "lunch at the canteen" -> <<"l", "u", "n", "c", "h", " ", "a", "t", " ", "t", "h", "e", " ", "c", "a", "n", "t", "e", "e", "n">>
\* END CHARS

LowerChar(c) ==
    CASE c = "A" -> "a" [] c = "B" -> "b" [] c = "C" -> "c" [] c = "D" -> "d"
      [] c = "E" -> "e" [] c = "F" -> "f" [] c = "G" -> "g" [] c = "H" -> "h"
      [] c = "I" -> "i" [] c = "J" -> "j" [] c = "K" -> "k" [] c = "L" -> "l"
      [] c = "M" -> "m" [] c = "N" -> "n" [] c = "O" -> "o" [] c = "P" -> "p"
      [] c = "Q" -> "q" [] c = "R" -> "r" [] c = "S" -> "s" [] c = "T" -> "t"
      [] c = "U" -> "u" [] c = "V" -> "v" [] c = "W" -> "w" [] c = "X" -> "x"
      [] c = "Y" -> "y" [] c = "Z" -> "z" [] OTHER -> c
UpperChar(c) ==
    CASE c = "a" -> "A" [] c = "b" -> "B" [] c = "c" -> "C" [] c = "d" -> "D"
      [] c = "e" -> "E" [] c = "f" -> "F" [] c = "g" -> "G" [] c = "h" -> "H"
      [] c = "i" -> "I" [] c = "j" -> "J" [] c = "k" -> "K" [] c = "l" -> "L"
      [] c = "m" -> "M" [] c = "n" -> "N" [] c = "o" -> "O" [] c = "p" -> "P"
      [] c = "q" -> "Q" [] c = "r" -> "R" [] c = "s" -> "S" [] c = "t" -> "T"
      [] c = "u" -> "U" [] c = "v" -> "V" [] c = "w" -> "W" [] c = "x" -> "X"
      [] c = "y" -> "Y" [] c = "z" -> "Z" [] OTHER -> c
\* str.lower, str.upper
Lower(cs) == [i \in 1..Len(cs) |-> LowerChar(cs[i])]
Upper(cs) == [i \in 1..Len(cs) |-> UpperChar(cs[i])]

\* str.strip
IsSpace(c) == c \in {" ", "\t", "\n"}
RECURSIVE LStrip(_)
LStrip(cs) == IF cs # <<>> /\ IsSpace(Head(cs)) THEN LStrip(Tail(cs)) ELSE cs
RECURSIVE RStrip(_)
RStrip(cs) ==
    IF cs # <<>> /\ IsSpace(cs[Len(cs)]) THEN RStrip(SubSeq(cs, 1, Len(cs) - 1)) ELSE cs
Strip(cs) == RStrip(LStrip(cs))

\* needle in hay
Contains(hay, needle) ==
    \E i \in 0..(Len(hay) - Len(needle)) : SubSeq(hay, i + 1, i + Len(needle)) = needle

\* any(word in text for word in words)
AnyWordIn(words, text) == \E i \in 1..Len(words) : Contains(text, Chars(words[i]))

(***************************************************************************)
(* Numbers in text: re.findall(r'(\d+(?:\.\d+)?)', s) and float(token).    *)
(***************************************************************************)
IsDigit(c) == c \in {"0", "1", "2", "3", "4", "5", "6", "7", "8", "9"}
DigitVal(c) ==
    CASE c = "0" -> 0 [] c = "1" -> 1 [] c = "2" -> 2 [] c = "3" -> 3 [] c = "4" -> 4
      [] c = "5" -> 5 [] c = "6" -> 6 [] c = "7" -> 7 [] c = "8" -> 8 [] c = "9" -> 9

\* the last index of the run of digits that starts at i
RECURSIVE DigitRunEnd(_, _)
DigitRunEnd(cs, i) ==
    IF i + 1 <= Len(cs) /\ IsDigit(cs[i + 1]) THEN DigitRunEnd(cs, i + 1) ELSE i

\* the matches of \d+(?:\.\d+)? from index i on, left to right, none overlapping
RECURSIVE NumberTokensFrom(_, _)
NumberTokensFrom(cs, i) ==
    IF i > Len(cs) THEN <<>>
    ELSE IF IsDigit(cs[i])
    THEN LET j == DigitRunEnd(cs, i)
             k == IF j + 2 <= Len(cs) /\ cs[j + 1] = "." /\ IsDigit(cs[j + 2])
                  THEN DigitRunEnd(cs, j + 2) ELSE j
         IN  <<SubSeq(cs, i, k)>> \o NumberTokensFrom(cs, k + 1)
    ELSE NumberTokensFrom(cs, i + 1)
NumberTokens(cs) == NumberTokensFrom(cs, 1)

RECURSIVE DigitsToInt(_)
DigitsToInt(ds) ==
    IF ds = <<>> THEN 0 ELSE DigitsToInt(SubSeq(ds, 1, Len(ds) - 1)) * 10 + DigitVal(ds[Len(ds)])
RECURSIVE DropTrailingZeros(_)
DropTrailingZeros(ds) ==
    IF ds # <<>> /\ ds[Len(ds)] = 0 THEN DropTrailingZeros(SubSeq(ds, 1, Len(ds) - 1)) ELSE ds
DotIndex(tok) == IF \E i \in 1..Len(tok) : tok[i] = "."
                 THEN CHOOSE i \in 1..Len(tok) : tok[i] = "." ELSE 0
\* float(token) for a token of digits with an optional fraction
ParseFloat(tok) ==
    LET dot == DotIndex(tok)
    IN  IF dot = 0 THEN JNum(DigitsToInt(tok))
        ELSE JDec(DigitsToInt(SubSeq(tok, 1, dot - 1)),
                  DropTrailingZeros([i \in 1..(Len(tok) - dot) |-> DigitVal(tok[dot + i])]))

(***************************************************************************)
(* chat_logic.py: simple_intent_fallback                                   *)
(***************************************************************************)
Category(name, type) == [name |-> name, type |-> type]

\* for cat in categories: if cat['name'].lower() in user_input_lower: ... break
RECURSIVE FirstCategoryIn(_, _)
FirstCategoryIn(categories, lower) ==
    IF categories = <<>> THEN Category("", "")
    ELSE IF Contains(lower, Lower(Chars(Head(categories).name))) THEN Head(categories)
    ELSE FirstCategoryIn(Tail(categories), lower)
Found(cat) == cat.type # ""
NameOrNone(cat) == IF Found(cat) THEN JStr(cat.name) ELSE None

\* the update block: a result, or NoResult when it returns nothing
NoResult == JDoc(Absent)
UpdateBlock(user_input, lower, categories) ==
    LET amounts == NumberTokens(Chars(user_input))
        matched == FirstCategoryIn(categories, lower)
    IN  IF Len(amounts) >= 2
        THEN JObj([EmptyDict EXCEPT !["intent"] = JStr("update_transaction"),
                                    !["old_amount"] = ParseFloat(amounts[1]),
                                    !["new_amount"] = ParseFloat(amounts[2]),
                                    !["category"] = NameOrNone(matched)])
        ELSE IF Len(amounts) = 1
        THEN JObj([EmptyDict EXCEPT !["intent"] = JStr("chat"),
                                    !["message"] = JStr("update: give old and new amount")])
        ELSE NoResult

\* A delete block that takes the last numeric token of the text.
DeleteBlockLastAmount(user_input, lower, categories) ==
    LET amounts == NumberTokens(Chars(user_input))
        matched == FirstCategoryIn(categories, lower)
    IN  JObj([EmptyDict EXCEPT !["intent"] = JStr("delete_transaction"),
                               !["amount"] = IF amounts # <<>>
                                             THEN ParseFloat(amounts[Len(amounts)])
                                             ELSE None,
                               !["category"] = NameOrNone(matched)])

DeleteBlock(user_input, lower, categories) ==
    LET amounts == NumberTokens(Chars(user_input))
        matched == FirstCategoryIn(categories, lower)
    IN  JObj([EmptyDict EXCEPT !["intent"] = JStr("delete_transaction"),
                               !["amount"] = IF amounts # <<>> THEN ParseFloat(amounts[1])
                                             ELSE None,
                               !["category"] = NameOrNone(matched)])

\* An add block that asks for a numeric token only.
AddBlockAmountOnly(user_input, lower, categories) ==
    LET amounts == NumberTokens(Chars(user_input))
        matched == FirstCategoryIn(categories, lower)
    IN  IF amounts # <<>>
        THEN JObj([EmptyDict EXCEPT !["intent"] = JStr("add_transaction"),
                                    !["transaction"] = JTrue,
                                    !["amount"] = ParseFloat(amounts[1]),
                                    !["category"] = NameOrNone(matched),
                                    !["description"] = JStr(user_input),
                                    !["type"] = JStr(matched.type)])
        ELSE IF Found(matched)
        THEN JObj([EmptyDict EXCEPT !["intent"] = JStr("chat"),
                                    !["message"] = JStr("add: specify the amount")])
        ELSE NoResult

AddBlock(user_input, lower, categories) ==
    LET amounts == NumberTokens(Chars(user_input))
        matched == FirstCategoryIn(categories, lower)
    IN  IF amounts # <<>> /\ Found(matched)
        THEN JObj([EmptyDict EXCEPT !["intent"] = JStr("add_transaction"),
                                    !["transaction"] = JTrue,
                                    !["amount"] = ParseFloat(amounts[1]),
                                    !["category"] = JStr(matched.name),
                                    !["description"] = JStr(user_input),
                                    !["type"] = JStr(matched.type)])
        ELSE IF Found(matched)
        THEN JObj([EmptyDict EXCEPT !["intent"] = JStr("chat"),
                                    !["message"] = JStr("add: specify the amount")])
        ELSE IF amounts # <<>>
        THEN JObj([EmptyDict EXCEPT !["intent"] = JStr("chat"),
                                    !["message"] = JStr("add: specify the category")])
        ELSE NoResult

SummaryBlock(lower) ==
    IF Contains(lower, Chars("income"))
    THEN JObj([EmptyDict EXCEPT !["intent"] = JStr("get_monthly_total_income")])
    ELSE IF Contains(lower, Chars("expense")) \/ Contains(lower, Chars("spent"))
    THEN JObj([EmptyDict EXCEPT !["intent"] = JStr("get_monthly_total_expense")])
    ELSE JObj([EmptyDict EXCEPT !["intent"] = JStr("get_summary"),
                                !["message"] = JStr("Here is your financial summary.")])

BudgetBlock(lower) ==
    IF AnyWordIn(BudgetFutureWords, lower)
    THEN JObj([EmptyDict EXCEPT !["intent"] = JStr("predict_budget")])
    ELSE JObj([EmptyDict EXCEPT !["intent"] = JStr("check_budget")])

ForecastBlock(lower) ==
    IF Contains(lower, Chars("income"))
    THEN JObj([EmptyDict EXCEPT !["intent"] = JStr("forecast_income")])
    ELSE JObj([EmptyDict EXCEPT !["intent"] = JStr("forecast_expense")])

\* The keyword classes in the order of the source, and what the block of each
\* does once one of its keywords occurs in the lower-cased text.
NClasses == 6
ClassMatches(c, lower) ==
    CASE c = 1 -> AnyWordIn(UpdateWords, lower)
      [] c = 2 -> AnyWordIn(DeleteWords, lower)
      [] c = 3 -> AnyWordIn(AddWords, lower)
      [] c = 4 -> AnyWordIn(SummaryWords, lower)
      [] c = 5 -> Contains(lower, Chars("budget"))
      [] c = 6 -> AnyWordIn(ForecastWords, lower)
ClassBlock(c, user_input, lower, categories) ==
    CASE c = 1 -> UpdateBlock(user_input, lower, categories)
      [] c = 2 -> DeleteBlock(user_input, lower, categories)
      [] c = 3 -> AddBlock(user_input, lower, categories)
      [] c = 4 -> SummaryBlock(lower)
      [] c = 5 -> BudgetBlock(lower)
      [] c = 6 -> ForecastBlock(lower)

\* A chain of elif-branches in place of the if-statements: the first class whose
\* keyword occurs ends the scan, whether or not its block returns.
RECURSIVE FirstKeywordDecides(_, _, _, _)
FirstKeywordDecides(c, user_input, lower, categories) ==
    IF c > NClasses THEN NoneDoc
    ELSE IF ClassMatches(c, lower)
    THEN IF ClassBlock(c, user_input, lower, categories) = NoResult THEN NoneDoc
         ELSE ClassBlock(c, user_input, lower, categories)
    ELSE FirstKeywordDecides(c + 1, user_input, lower, categories)

\* the chain of if-statements from class c on: a block that returns ends the
\* function, one that does not leaves the next if-statement to run
RECURSIVE FallbackFrom(_, _, _, _)
FallbackFrom(c, user_input, lower, categories) ==
    IF c > NClasses THEN NoneDoc
    ELSE IF ClassMatches(c, lower)
            /\ ClassBlock(c, user_input, lower, categories) # NoResult
    THEN ClassBlock(c, user_input, lower, categories)
    ELSE FallbackFrom(c + 1, user_input, lower, categories)

simple_intent_fallback(user_input, categories) ==
    FallbackFrom(1, user_input, Lower(Chars(user_input)), categories)

(***************************************************************************)
(* The answer of the remote service to session.post(...): the exception    *)
(* the call raises (error), or the status and the body of the response.    *)
(* body says how far response.json()["choices"][0]["message"]["content"]   *)
(* gets; content is what that string holds once a ``` fence around it is   *)
(* removed: a JSON document (doc), text that is no JSON, or null.          *)
(***************************************************************************)
Http(error, status, body, content, doc) ==
    [error |-> error, status |-> status, body |-> body, content |-> content, doc |-> doc]
HttpError(e) == Http(e, 0, "", "", NoneDoc)
HttpStatus(n) == Http("", n, "", "", NoneDoc)
HttpBody(b) == Http("", 200, b, "", NoneDoc)
HttpContent(c) == Http("", 200, "ok", c, NoneDoc)
HttpJson(doc) == Http("", 200, "ok", "json", doc)

\* The exception the try-block raises on this answer ("" when it raises none).
\* response.json() on a body that is no JSON raises a ValueError; a missing
\* key a KeyError, an empty choices list an IndexError; the test
\* "```json" in content on a null content raises a TypeError.
TryBlockException(resp) ==
    CASE resp.error # "" -> resp.error
      [] resp.status # 200 -> ""
      [] resp.body = "not_json" -> "ValueError"
      [] resp.body \in {"no_choices", "no_message", "no_content"} -> "KeyError"
      [] resp.body = "empty_choices" -> "IndexError"
      [] resp.content = "null" -> "TypeError"
      [] resp.content = "not_json" -> "JSONDecodeError"
      [] OTHER -> ""

\* isinstance(exception, class) for the classes the except clauses name
IsA(e, class) ==
    \/ e = class
    \/ class = "Exception"
    \/ class = "RequestException" /\ e \in {"Timeout", "ConnectionError"}
    \/ class = "ValueError" /\ e = "JSONDecodeError"

(***************************************************************************)
(* chat_logic.py: ask_ai_for_intent.  raised is the exception that leaves  *)
(* the function ("" when it returns), doc the value it returns.            *)
(***************************************************************************)
\* The except clauses without the final `except Exception`.
HandlersWithoutCatchAll ==
    {"Timeout", "RequestException", "KeyError", "IndexError", "JSONDecodeError"}

AskAiHandlers ==
    {"Timeout", "RequestException", "KeyError", "IndexError", "JSONDecodeError", "Exception"}
ask_ai_for_intent(resp) ==
    LET e == TryBlockException(resp)
    IN  IF e # ""
        THEN IF \E h \in AskAiHandlers : IsA(e, h)
             THEN [raised |-> "", doc |-> NoneDoc]
             ELSE [raised |-> e, doc |-> NoneDoc]
        ELSE IF resp.status # 200 THEN [raised |-> "", doc |-> NoneDoc]
        ELSE [raised |-> "", doc |-> resp.doc]

(***************************************************************************)
(* nlp_to_sql.py                                                           *)
(***************************************************************************)
\* BEGIN STRINGS
SqlTexts ==
    { "SELECT amount FROM transactions", "select created_at from transactions",
      "DELETE FROM transactions", "drop table users",
      "Select name From budgets; Update budgets set amount = 0",
      "SELECT SUM(amount) FROM transactions WHERE type = 'expense'", "" }
dangerous_keywords ==
    <<"INSERT", "UPDATE", "DELETE", "DROP", "ALTER", "CREATE", "TRUNCATE", "EXEC">>
\* END STRINGS

UnsafeAnswer(explanation) ==
    JObj([EmptyDict EXCEPT !["safe"] = JFalse, !["explanation"] = JStr(explanation)])

\* generate_sql_query: the dict it returns
generate_sql_query(resp) ==
    IF TryBlockException(resp) # "" THEN UnsafeAnswer("Error generating query")
    ELSE IF resp.status # 200 THEN UnsafeAnswer("API error")
    ELSE IF ~IsDict(resp.doc) THEN UnsafeAnswer("Error generating query")
    ELSE LET sql == Get(resp.doc.d, "sql", JStr(""))
         IN  IF sql.t # "str" THEN UnsafeAnswer("Error generating query")
             ELSE IF AnyWordIn(dangerous_keywords, Upper(Chars(sql.s)))
             THEN JObj([resp.doc.d EXCEPT
                          !["safe"] = JFalse,
                          !["explanation"] =
                              JStr("Query contains potentially dangerous operations")])
             ELSE resp.doc

\* execute_nlp_query: the dict it returns, and whether it called
\* db.session.execute.  dbok: the database runs the query without an error.
execute_nlp_query(resp, dbok) ==
    LET query_result == generate_sql_query(resp).d
        sql_query == Get(query_result, "sql", None)
    IN  IF ~Truthy(Get(query_result, "safe", JFalse))
        THEN [success |-> FALSE,
              error |-> Get(query_result, "explanation",
                            JStr("Query could not be generated safely")),
              query |-> None, executed |-> FALSE]
        ELSE IF sql_query.t # "str"
        THEN [success |-> FALSE, error |-> JStr("Query execution error"),
              query |-> sql_query, executed |-> FALSE]
        ELSE IF ~dbok
        THEN [success |-> FALSE, error |-> JStr("Query execution error"),
              query |-> sql_query, executed |-> TRUE]
        ELSE [success |-> TRUE, error |-> None, query |-> sql_query, executed |-> TRUE]

(***************************************************************************)
(* context_manager.py                                                      *)
(***************************************************************************)
max_history == 10

\* ConversationContext.__init__
NewContext(u) ==
    [user_id |-> u, messages |-> <<>>, context_data |-> EmptyDict,
     last_intent |-> None, last_entities |-> EmptyDict, session_start |-> now]

\* the slot of an object that does not exist
NoCtx ==
    [user_id |-> "", messages |-> <<>>, context_data |-> EmptyDict,
     last_intent |-> None, last_entities |-> EmptyDict, session_start |-> 0]

\* A plain list in place of the deque: append never drops an entry.
ListAppend(q, m, n) == Append(q, m)

\* deque(maxlen=n).append(m)
DequeAppend(q, m, n) ==
    IF n = 0 THEN <<>>
    ELSE IF Len(q) >= n THEN Append(Tail(q), m)
    ELSE Append(q, m)

\* entities or {}
OrEmpty(entities) == IF DictLen(entities) > 0 THEN entities ELSE EmptyDict

Message(role, content, intent, entities) ==
    [role |-> role, content |-> content, timestamp |-> now,
     intent |-> intent, entities |-> OrEmpty(entities)]

\* An add_message that records the intent of a message of any role.
add_message_any_role(c, role, content, intent, entities) ==
    LET c1 == [c EXCEPT !.messages =
                   DequeAppend(c.messages, Message(role, content, intent, entities),
                               max_history)]
    IN  IF Truthy(intent)
        THEN [c1 EXCEPT !.last_intent = intent,
                        !.last_entities = OrEmpty(entities)]
        ELSE c1

\* ConversationContext.add_message
add_message(c, role, content, intent, entities) ==
    LET c1 == [c EXCEPT !.messages =
                   DequeAppend(c.messages, Message(role, content, intent, entities),
                               max_history)]
    IN  IF role = "user" /\ Truthy(intent)
        THEN [c1 EXCEPT !.last_intent = intent,
                        !.last_entities = OrEmpty(entities)]
        ELSE c1

\* ConversationContext.set_context
set_context(c, key, value) == [c EXCEPT !.context_data[key] = value]

\* A clear_context that also empties the message log.
clear_context_and_log(c) ==
    [c EXCEPT !.context_data = EmptyDict, !.last_intent = None,
              !.last_entities = EmptyDict, !.messages = <<>>]

\* ConversationContext.clear_context
clear_context(c) ==
    [c EXCEPT !.context_data = EmptyDict, !.last_intent = None,
              !.last_entities = EmptyDict]

\* ConversationContext.is_follow_up: the follow_up_patterns table
follow_up_patterns ==
    [k \in {"add_transaction", "get_summary", "check_budget", "forecast", "nlp_query"} |->
        CASE k = "add_transaction" -> {"add_transaction", "get_summary"}
          [] k = "get_summary" -> {"add_transaction", "get_details"}
          [] k = "check_budget" -> {"predict_budget", "add_transaction"}
          [] k = "forecast" -> {"get_summary", "advice"}
          [] k = "nlp_query" -> {"nlp_query", "get_details"}]

\* dict.get(key, ...) raises a TypeError on a key that cannot be hashed
Hashable(v) == v.t \notin {"list", "dict"}

\* follow_up_patterns.get(key, [])
PatternsFor(key) ==
    IF key.t = "str" /\ key.s \in DOMAIN follow_up_patterns
    THEN {JStr(i) : i \in follow_up_patterns[key.s]}
    ELSE {}

\* ConversationContext.is_follow_up(current_intent): the exception that leaves
\* it ("" when it returns) and the value it returns
is_follow_up(c, current_intent) ==
    IF ~Truthy(c.last_intent) THEN [raised |-> "", value |-> FALSE]
    ELSE IF ~Hashable(c.last_intent) THEN [raised |-> "TypeError", value |-> FALSE]
    ELSE [raised |-> "", value |-> current_intent \in PatternsFor(c.last_intent)]

\* detect_intent_with_context: the exception that leaves it ("" when it returns)
detect_intent_with_context(c) ==
    IF Truthy(c.last_intent) THEN is_follow_up(c, c.last_intent).raised ELSE ""

\* timedelta.seconds: the seconds field of a normalised timedelta, 0..86399;
\* the whole days are in its days field.
TimedeltaSeconds(d) == d % 86400

\* the condition of get_user_context's clean-up
Expired(c) == TimedeltaSeconds(now - c.session_start) > 3600

\* The objects something still refers to; the others are garbage.
Live(st, held) == {st[u] : u \in Users} \cup held
Collect(h, st, held) == [o \in ObjIds |-> IF o \in Live(st, held) THEN h[o] ELSE NoCtx]
HeldNow == {thr[t].ctx : t \in Threads}
FreeObj == CHOOSE o \in ObjIds : o \notin Live(store, HeldNow)
                                 /\ \A p \in ObjIds : p \notin Live(store, HeldNow) => o <= p
CanAlloc == \E o \in ObjIds : o \notin Live(store, HeldNow)

\* get_user_context: the store, the heap and the object it returns
guc_store(u) == IF store[u] = NoObj THEN [store EXCEPT ![u] = FreeObj] ELSE store
guc_obj(u) == guc_store(u)[u]
guc_heap(u) ==
    LET h1 == IF store[u] = NoObj THEN [heap EXCEPT ![FreeObj] = NewContext(u)] ELSE heap
        o == guc_obj(u)
    IN  IF Expired(h1[o])
        THEN [h1 EXCEPT ![o] = [clear_context(h1[o]) EXCEPT !.session_start = now]]
        ELSE h1

\* the context the store holds for u
Ctx(u) == heap[store[u]]
HasCtx(u) == store[u] # NoObj

(***************************************************************************)
(* Calls on the context store and on a context, as the routes and the      *)
(* resolver make them.                                                     *)
(***************************************************************************)
Budget == ops < maxops /\ ops' = ops + 1 /\ UNCHANGED maxops

\* GET /context: get_user_context(u)
GetUserContextCall(u) ==
    /\ Budget
    /\ store[u] # NoObj \/ CanAlloc
    /\ store' = guc_store(u)
    /\ heap' = guc_heap(u)
    /\ UNCHANGED <<now, fb, thr, db, nlp, ret, serial>>

\* context.add_message(role, content, intent, entities) on u's context
AddMessageCall(u, role, content, intent, entities) ==
    /\ Budget
    /\ HasCtx(u)
    /\ heap' = [heap EXCEPT ![store[u]] = add_message(@, role, content, intent, entities)]
    /\ UNCHANGED <<now, store, fb, thr, db, nlp, ret, serial>>

\* context.set_context(key, value)
SetContextCall(u, key, value) ==
    /\ Budget
    /\ HasCtx(u)
    /\ heap' = [heap EXCEPT ![store[u]] = set_context(@, key, value)]
    /\ UNCHANGED <<now, store, fb, thr, db, nlp, ret, serial>>

\* context.clear_context()
ClearContextCall(u) ==
    /\ Budget
    /\ HasCtx(u)
    /\ heap' = [heap EXCEPT ![store[u]] = clear_context(@)]
    /\ UNCHANGED <<now, store, fb, thr, db, nlp, ret, serial>>

\* `_context_store.clear()` in place of the deletion of one entry
clear_every_context(u) == [x \in Users |-> NoObj]

\* the store as it is, in place of the deletion
keep_user_context(u) == store

\* DELETE /context: clear_user_context(u)
clear_user_context(u) == IF store[u] # NoObj THEN [store EXCEPT ![u] = NoObj] ELSE store
ClearUserContextCall(u) ==
    /\ Budget
    /\ store' = clear_user_context(u)
    /\ heap' = Collect(heap, store', HeldNow)
    /\ UNCHANGED <<now, fb, thr, db, nlp, ret, serial>>

\* context.is_follow_up(current_intent) on u's context
IsFollowUpCall(u, current_intent) ==
    /\ Budget
    /\ HasCtx(u)
    /\ ret' = [fn |-> "is_follow_up",
               args |-> [context |-> Ctx(u), current_intent |-> current_intent],
               result |-> is_follow_up(Ctx(u), current_intent)]
    /\ UNCHANGED <<ctxVars, fb, thr, db, nlp, serial>>

\* time passes
TickSteps == {1800, 1801, 86400}
Tick(d) ==
    /\ Budget
    /\ now' = now + d
    /\ UNCHANGED <<store, heap, fb, thr, db, nlp, ret, serial>>

(***************************************************************************)
(* chat_logic.py: the account data and the transaction handlers            *)
(***************************************************************************)
\* BEGIN STRINGS
PayloadCategoryNames == {"food", " FOOD ", "Travel", "  "}
\* END STRINGS

\* load_categories: the categories table of the user, in table order
load_categories(u) ==
    <<Category("Food", "expense"), Category("Salary", "income"), Category("Rent", "expense")>>

\* match_category(name, tx_type, categories): the category's name, or None
RECURSIVE match_category(_, _, _)
match_category(name, tx_type, categories) ==
    IF categories = <<>> THEN None
    ELSE IF JStr(Head(categories).type) = tx_type
            /\ Lower(Strip(Chars(Head(categories).name))) = Lower(Strip(Chars(name)))
    THEN JStr(Head(categories).name)
    ELSE match_category(name, tx_type, Tail(categories))

\* Category.query.filter_by(...).first().id: the row number of a category (0: none)
CategoryId(u, name, types) ==
    LET cs == load_categories(u)
        hits == {i \in 1..Len(cs) : cs[i].name = name /\ cs[i].type \in types}
    IN  IF hits = {} THEN 0 ELSE CHOOSE i \in hits : \A j \in hits : i <= j

\* x <= 0 raises a TypeError unless x is a number
OrderRaises(x) == x.t \notin {"num", "bool"}
NotPositive(x) == x.n < 0 \/ (x.n = 0 /\ x.f = <<>>)

\* What a handler does: the exception that leaves it ("" when it returns), its
\* reply, the entities the resolver recorded before calling it, whether it
\* wrote a transaction, and the user's rows of the transactions table.
Handled(raised, response, entities, wrote, rows) ==
    [raised |-> raised, response |-> response, entities |-> entities,
     wrote |-> wrote, rows |-> rows]
Reply(text, rows) == Handled("", JStr(text), EmptyDict, FALSE, rows)
Raise(e, rows) == Handled(e, None, EmptyDict, FALSE, rows)

\* add_transaction
add_transaction(description, amount, category_name, tx_type, categories, u, rows) ==
    IF ~Truthy(amount) THEN Reply("Invalid amount.", rows)
    ELSE IF OrderRaises(amount) THEN Raise("TypeError", rows)
    ELSE IF NotPositive(amount) THEN Reply("Invalid amount.", rows)
    ELSE IF ~Truthy(category_name) THEN Reply("Category not specified.", rows)
    ELSE IF category_name.t # "str" THEN Raise("AttributeError", rows)
    ELSE IF Strip(Chars(category_name.s)) = <<>> THEN Reply("Category not specified.", rows)
    ELSE LET matched == match_category(category_name.s, tx_type, categories)
         IN  IF matched = None
             THEN Reply("Category not found. Transaction not recorded.", rows)
             ELSE IF CategoryId(u, matched.s, {tx_type.s}) = 0
             THEN Reply("Category not found in database.", rows)
             ELSE Handled("", JStr("Recorded."), EmptyDict, TRUE,
                          Append(rows, [amount |-> amount,
                                        category_id |-> CategoryId(u, matched.s, {tx_type.s}),
                                        description |-> description,
                                        date |-> now, type |-> tx_type]))

\* The row update_transaction and delete_transaction pick: the most recent of the
\* user's rows of the last 30 days that pass the filters (0: none).
AllTypes == {"income", "expense"}
FindTransaction(amount, category_name, u, rows) ==
    LET category == IF Truthy(category_name) /\ category_name.t = "str"
                    THEN CategoryId(u, category_name.s, AllTypes) ELSE 0
        hits == {i \in 1..Len(rows) :
                    /\ category # 0 => rows[i].category_id = category
                    /\ Truthy(amount) => rows[i].amount = amount
                    /\ rows[i].date >= now - 30 * 86400}
    IN  IF hits = {} THEN 0
        ELSE CHOOSE i \in hits : \A j \in hits : rows[j].date < rows[i].date
                                                 \/ (rows[j].date = rows[i].date /\ j <= i)

\* update_transaction
update_transaction(old_amount, new_amount, category_name, u, rows) ==
    LET i == FindTransaction(old_amount, category_name, u, rows)
    IN  IF i = 0 THEN Reply("Could not find a recent transaction matching your criteria.", rows)
        ELSE Reply("Updated transaction.", [rows EXCEPT ![i].amount = new_amount])

\* delete_transaction
delete_transaction(amount, category_name, u, rows) ==
    LET i == FindTransaction(amount, category_name, u, rows)
    IN  IF i = 0 THEN Reply("Could not find a recent transaction matching your criteria.", rows)
        ELSE Reply("Deleted transaction.",
                   SubSeq(rows, 1, i - 1) \o SubSeq(rows, i + 1, Len(rows)))

(***************************************************************************)
(* chat_logic.py: process_chat_message, from the intent on                 *)
(***************************************************************************)
WithEntities(h, entities) == [h EXCEPT !.entities = entities]

\* ai_data.get("message", default)
MessageOr(d, default) == Handled("", Get(d, "message", JStr(default)), EmptyDict, FALSE, <<>>)

HandleIntent(d, user_input, answer, u, rows) ==
    LET intent == Get(d, "intent", None)
        is(name) == intent = JStr(name)
        amount == Get(d, "amount", None)
        category == Get(d, "category", None)
        description == Get(d, "description", JStr(user_input))
        tx_type == Get(d, "type", JStr("expense"))
        old_amount == Get(d, "old_amount", None)
        new_amount == Get(d, "new_amount", None)
    IN  IF is("invalid_category")
        THEN Reply("I couldn't match your input to any known category.", rows)
        ELSE IF is("add_transaction") /\ Truthy(Get(d, "transaction", None))
        THEN IF ~Truthy(amount)
             THEN Reply("Please specify a valid amount for the transaction.", rows)
             ELSE IF OrderRaises(amount) THEN Raise("TypeError", rows)
             ELSE IF NotPositive(amount)
             THEN Reply("Please specify a valid amount for the transaction.", rows)
             ELSE IF ~Truthy(category) THEN Reply("Please specify a category.", rows)
             ELSE WithEntities(
                      add_transaction(description, amount, category, tx_type,
                                      load_categories(u), u, rows),
                      [EmptyDict EXCEPT !["amount"] = amount, !["category"] = category,
                                        !["type"] = tx_type])
        ELSE IF is("update_transaction")
        THEN IF ~Truthy(new_amount) THEN Reply("Please specify the new amount.", rows)
             ELSE IF OrderRaises(new_amount) THEN Raise("TypeError", rows)
             ELSE IF NotPositive(new_amount) THEN Reply("Please specify the new amount.", rows)
             ELSE WithEntities(
                      update_transaction(old_amount, new_amount, category, u, rows),
                      [EmptyDict EXCEPT !["old_amount"] = old_amount,
                                        !["new_amount"] = new_amount,
                                        !["category"] = category])
        ELSE IF is("delete_transaction")
        THEN WithEntities(delete_transaction(amount, category, u, rows),
                          [EmptyDict EXCEPT !["amount"] = amount, !["category"] = category])
        ELSE IF is("get_monthly_total_income") THEN Reply("Your total income this month.", rows)
        ELSE IF is("get_monthly_total_expense")
        THEN Reply("Your total expenditure this month.", rows)
        ELSE IF is("predict_expense") THEN Reply("Your expected monthly spending.", rows)
        ELSE IF is("forecast_expense") THEN Reply("Expense Forecast (Next Month).", rows)
        ELSE IF is("forecast_income") THEN Reply("Income Forecast (Next Month).", rows)
        ELSE IF is("budget_risk") THEN Reply("Budget Risk Analysis.", rows)
        ELSE IF is("spending_insights") THEN Reply("Spending Insights.", rows)
        ELSE IF is("nlp_query")
        THEN IF execute_nlp_query(answer.http, answer.dbok).success
             THEN Reply("Query Results.", rows)
             ELSE Reply("Query failed. Suggested queries.", rows)
        ELSE IF is("check_budget") \/ is("budget_status") THEN Reply("Budget summary.", rows)
        ELSE IF is("predict_budget") THEN Reply("Budget prediction.", rows)
        ELSE IF is("savings_goals") THEN Reply("Savings goals.", rows)
        ELSE IF is("get_summary") THEN [MessageOr(d, "Here's your summary.") EXCEPT !.rows = rows]
        ELSE IF is("advice") THEN [MessageOr(d, "Here's some advice.") EXCEPT !.rows = rows]
        ELSE [MessageOr(d, "I'm here to help!") EXCEPT !.rows = rows]

\* What one process_chat_message call works out between get_user_context and the
\* two add_message calls.  inp: the user's text, the remote classifier's answer
\* and the translator's answer (read by the nlp_query intent only).
Resolved(raised, ai, fallback_ran, intent, h) ==
    [raised |-> raised, ai |-> ai, fallback_ran |-> fallback_ran, intent |-> intent,
     entities |-> h.entities, response |-> h.response, wrote |-> h.wrote, rows |-> h.rows]

Resolve(inp, u, rows, c) ==
    LET asked == ask_ai_for_intent(inp.http)
        fallback_ran == asked.raised = "" /\ ~Truthy(asked.doc.v)
        ai_data == IF fallback_ran THEN simple_intent_fallback(inp.text, load_categories(u))
                   ELSE asked.doc
    IN  IF detect_intent_with_context(c) # ""
        THEN Resolved(detect_intent_with_context(c), NoneDoc, FALSE, None,
                      Raise(detect_intent_with_context(c), rows))
        ELSE IF asked.raised # ""
        THEN Resolved(asked.raised, ai_data, fallback_ran, None, Raise(asked.raised, rows))
        ELSE IF ~Truthy(ai_data.v)
        THEN Resolved("", ai_data, fallback_ran, None,
                      Reply("Sorry, I couldn't understand that.", rows))
        ELSE IF ~IsDict(ai_data)
        THEN Resolved("AttributeError", ai_data, fallback_ran, None,
                      Raise("AttributeError", rows))
        ELSE LET h == HandleIntent(ai_data.d, inp.text, inp.answer, u, rows)
             IN  Resolved(h.raised, ai_data, fallback_ran, Get(ai_data.d, "intent", None), h)

(***************************************************************************)
(* process_chat_message as the steps of a thread.  pc:                     *)
(*   idle -> resolve (get_user_context done) -> add_user (response worked  *)
(*   out) -> add_assistant (user message logged) -> done (assistant        *)
(*   message logged, response returned); resolve -> raised when an         *)
(*   exception leaves the function.                                        *)
(***************************************************************************)
NoAnswer == [http |-> HttpStatus(500), dbok |-> FALSE]
NoInput == [text |-> "", http |-> HttpStatus(500), answer |-> NoAnswer]
ThrIdle ==
    [pc |-> "idle", ctx |-> NoObj, input |-> NoInput, ai |-> NoneDoc,
     fallback_ran |-> FALSE, intent |-> None, entities |-> EmptyDict,
     response |-> None, wrote |-> FALSE, raised |-> ""]

\* The caller may start a turn of thread t: always when it does not serialise
\* the turns, else only while no other turn of the same user is in flight.
MayStart(t) ==
    serial => \A x \in Threads \ {t} : ThreadUser(x) = ThreadUser(t) => thr[x].pc = "idle"

\* process_chat_message(user_input, user_id) is called: context = get_user_context(user_id)
PcmGetContext(t, inp) ==
    /\ Budget
    /\ thr[t].pc = "idle"
    /\ MayStart(t)
    /\ store[ThreadUser(t)] # NoObj \/ CanAlloc
    /\ store' = guc_store(ThreadUser(t))
    /\ heap' = guc_heap(ThreadUser(t))
    /\ thr' = [thr EXCEPT ![t] = [ThrIdle EXCEPT !.pc = "resolve", !.input = inp,
                                                 !.ctx = guc_obj(ThreadUser(t))]]
    /\ UNCHANGED <<now, fb, db, nlp, ret, serial>>

\* get_user_context statement by statement, for turns that run side by side.
\* process_chat_message is called; `if user_id not in _context_store`
PcmCheckStore(t, inp) ==
    /\ Budget
    /\ thr[t].pc = "idle"
    /\ MayStart(t)
    /\ thr' = [thr EXCEPT ![t] =
                 [ThrIdle EXCEPT !.pc = IF store[ThreadUser(t)] = NoObj THEN "guc_create"
                                        ELSE "guc_read",
                                 !.input = inp]]
    /\ UNCHANGED <<now, store, heap, fb, db, nlp, ret, serial>>

\* _context_store[user_id] = ConversationContext(user_id)
PcmCreate(t) ==
    /\ thr[t].pc = "guc_create"
    /\ CanAlloc
    /\ store' = [store EXCEPT ![ThreadUser(t)] = FreeObj]
    /\ heap' = Collect([heap EXCEPT ![FreeObj] = NewContext(ThreadUser(t))], store', HeldNow)
    /\ thr' = [thr EXCEPT ![t].pc = "guc_read"]
    /\ UNCHANGED <<now, ops, maxops, fb, db, nlp, ret, serial>>

\* context = _context_store[user_id] (a KeyError when the entry has been
\* deleted meanwhile), the expiry test and the return
PcmRead(t) ==
    /\ thr[t].pc = "guc_read"
    /\ IF store[ThreadUser(t)] = NoObj
       THEN /\ thr' = [thr EXCEPT ![t].pc = "raised", ![t].raised = "KeyError"]
            /\ heap' = heap
       ELSE /\ thr' = [thr EXCEPT ![t].pc = "resolve", ![t].ctx = store[ThreadUser(t)]]
            /\ heap' = guc_heap(ThreadUser(t))
    /\ UNCHANGED <<now, store, ops, maxops, fb, db, nlp, ret, serial>>

\* remote stage, fallback stage and the intent's handler
PcmResolve(t) ==
    /\ thr[t].pc = "resolve"
    /\ \E r \in {Resolve(thr[t].input, ThreadUser(t), db[ThreadUser(t)],
                         heap[thr[t].ctx])} :
           /\ thr' = [thr EXCEPT ![t] =
                        [@ EXCEPT !.pc = IF r.raised # "" THEN "raised" ELSE "add_user",
                                  !.ai = r.ai, !.fallback_ran = r.fallback_ran,
                                  !.intent = r.intent, !.entities = r.entities,
                                  !.response = r.response, !.wrote = r.wrote,
                                  !.raised = r.raised]]
           /\ db' = [db EXCEPT ![ThreadUser(t)] = r.rows]
    /\ UNCHANGED <<now, store, heap, ops, maxops, fb, nlp, ret, serial>>

\* context.add_message('user', user_input, intent=intent, entities=entities)
PcmAddUser(t) ==
    /\ thr[t].pc = "add_user"
    /\ heap' = [heap EXCEPT ![thr[t].ctx] =
                  add_message(@, "user", JStr(thr[t].input.text), thr[t].intent,
                              thr[t].entities)]
    /\ thr' = [thr EXCEPT ![t].pc = "add_assistant"]
    /\ UNCHANGED <<now, store, ops, maxops, fb, db, nlp, ret, serial>>

\* the turn returns the response without logging it
PcmReturnUnlogged(t) ==
    /\ thr[t].pc = "add_assistant"
    /\ thr' = [thr EXCEPT ![t].pc = "done"]
    /\ UNCHANGED <<now, store, heap, ops, maxops, fb, db, nlp, ret, serial>>

\* context.add_message('assistant', response); return response
PcmAddAssistant(t) ==
    /\ thr[t].pc = "add_assistant"
    /\ heap' = [heap EXCEPT ![thr[t].ctx] =
                  add_message(@, "assistant", thr[t].response, None, EmptyDict)]
    /\ thr' = [thr EXCEPT ![t].pc = "done"]
    /\ UNCHANGED <<now, store, ops, maxops, fb, db, nlp, ret, serial>>

\* the caller has the response (or the exception); the thread's locals are gone
PcmReturn(t) ==
    /\ thr[t].pc \in {"done", "raised"}
    /\ thr' = [thr EXCEPT ![t] = ThrIdle]
    /\ heap' = Collect(heap, store, {thr'[x].ctx : x \in Threads})
    /\ UNCHANGED <<now, store, ops, maxops, fb, db, nlp, ret, serial>>

(***************************************************************************)
(* Calls of the two functions the resolver uses, on their own.             *)
(***************************************************************************)
RetIdle == [fn |-> "", args |-> <<>>, result |-> <<>>]
FbIdle == [called |-> FALSE, text |-> "", categories |-> <<>>, result |-> NoneDoc]
NlpIdle ==
    [called |-> FALSE, answer |-> NoAnswer,
     result |-> [success |-> FALSE, error |-> None, query |-> None, executed |-> FALSE]]

\* simple_intent_fallback(text, categories)
FallbackCall(text, categories) ==
    /\ Budget
    /\ fb' = [called |-> TRUE, text |-> text, categories |-> categories,
              result |-> simple_intent_fallback(text, categories)]
    /\ UNCHANGED <<ctxVars, thr, db, nlp, ret, serial>>

\* POST /nlp-query: execute_nlp_query(query, user_id)
NlpCall(answer) ==
    /\ Budget
    /\ nlp' = [called |-> TRUE, answer |-> answer,
               result |-> execute_nlp_query(answer.http, answer.dbok)]
    /\ UNCHANGED <<ctxVars, thr, db, fb, ret, serial>>

InitCommon ==
    /\ now = 0
    /\ store = [u \in Users |-> NoObj]
    /\ heap = [o \in ObjIds |-> NoCtx]
    /\ ops = 0
    /\ fb = FbIdle
    /\ thr = [t \in Threads |-> ThrIdle]
    /\ db = [u \in Users |-> <<>>]
    /\ nlp = NlpIdle
    /\ ret = RetIdle
    /\ serial = TRUE

(***************************************************************************)
(* Spec: chat turns of one user, one at a time, over every kind of answer  *)
(* of the remote classifier.                                               *)
(***************************************************************************)
\* BEGIN STRINGS
ChatTexts == {"lunch at the canteen"}
\* END STRINGS

Payload(intent) == [EmptyDict EXCEPT !["intent"] = JStr(intent)]
AddPayload(amount, category, type) ==
    [Payload("add_transaction") EXCEPT !["transaction"] = JTrue, !["amount"] = amount,
                                       !["category"] = category, !["type"] = type]
SafeSelect ==
    [http |-> HttpJson(JObj([EmptyDict EXCEPT !["sql"] = JStr("SELECT amount FROM transactions"),
                                              !["safe"] = JTrue])),
     dbok |-> TRUE]
Chat(text, http) == [text |-> text, http |-> http, answer |-> NoAnswer]
Remote(d) == Chat("lunch at the canteen", HttpJson(JObj(d)))

ChatInputs ==
    { \* the remote stage fails or yields nothing
      Chat("add 500 for food", HttpError("Timeout")),
      Chat("add 0 for food", HttpError("ConnectionError")),
      Chat("delete the 500 transaction", HttpStatus(500)),
      Chat("hello", HttpBody("not_json")),
      Chat("add food", HttpBody("no_choices")),
      Chat("update my budget", HttpBody("empty_choices")),
      Chat("budget status", HttpBody("no_message")),
      Chat("forecast next month", HttpContent("null")),
      Chat("update food from 1200 to 500", HttpContent("not_json")),
      Chat("show my summary", HttpJson(NoneDoc)),
      Chat("hello", HttpJson(JObj(EmptyDict))),
      Chat("add 500", HttpJson(JDoc(JList(0)))),
      \* the remote stage yields a JSON document
      Remote(AddPayload(JNum(500), JStr("Food"), JStr("expense"))),
      Remote(AddPayload(JNum(500), JStr(" FOOD "), JStr("expense"))),
      Remote(AddPayload(JNum(0), JStr("Food"), JStr("expense"))),
      Remote(AddPayload(JNum(-5), JStr("Food"), JStr("expense"))),
      Remote(AddPayload(Absent, JStr("Food"), JStr("expense"))),
      Remote(AddPayload(JNum(500), Absent, Absent)),
      Remote(AddPayload(JNum(500), JStr("Travel"), JStr("expense"))),
      Remote(AddPayload(JNum(500), JStr("Salary"), JStr("expense"))),
      Remote(AddPayload(JStr("500"), JStr("Food"), JStr("expense"))),
      Remote([AddPayload(Absent, JStr("Food"), Absent) EXCEPT !["transaction"] = JFalse]),
      Remote([EmptyDict EXCEPT !["message"] = JStr("hi")]),
      Remote(Payload("dance")),
      Remote([Payload("chat") EXCEPT !["message"] = JStr("hi")]),
      Remote(Payload("invalid_category")),
      Remote(Payload("get_summary")),
      Remote([Payload("delete_transaction") EXCEPT !["amount"] = JNum(500)]),
      Remote([Payload("update_transaction") EXCEPT !["old_amount"] = JNum(500),
                                                   !["new_amount"] = JNum(300),
                                                   !["category"] = JStr("Food")]),
      [Remote(Payload("nlp_query")) EXCEPT !.answer = SafeSelect],
      Chat("lunch at the canteen", HttpJson(JDoc(JList(1)))) }

Init == InitCommon /\ maxops = MaxTurns

Next ==
    \/ \E inp \in ChatInputs : PcmGetContext("t1", inp)
    \/ PcmResolve("t1")
    \/ PcmAddUser("t1")
    \/ PcmAddAssistant("t1")
    \/ PcmReturn("t1")

Spec == Init /\ [][Next]_vars

(***************************************************************************)
(* SpecLog: many turns and direct add_message calls on one context, enough *)
(* to fill the message log.                                                *)
(***************************************************************************)
LogInputs ==
    { Chat("budget status", HttpStatus(500)),
      Remote([Payload("chat") EXCEPT !["message"] = JStr("hi")]) }

InitLog == InitCommon /\ maxops = MaxLogOps

NextLog ==
    \/ \E inp \in LogInputs : PcmGetContext("t1", inp)
    \/ PcmResolve("t1")
    \/ PcmAddUser("t1")
    \/ PcmAddAssistant("t1")
    \/ PcmReturn("t1")
    \/ thr["t1"].pc = "idle"
       /\ AddMessageCall("u1", "user", JStr("note"), JStr("advice"), EmptyDict)

SpecLog == InitLog /\ [][NextLog]_vars

(***************************************************************************)
(* SpecCtx: the context store under direct calls, with the clock running.  *)
(***************************************************************************)
CtxMessages ==
    { <<"user", JStr("hello"), JStr("get_summary"), EmptyDict>>,
      <<"assistant", JStr("summary"), None, EmptyDict>> }

InitCtx == InitCommon /\ maxops = MaxCtxOps

NextCtx ==
    \/ \E u \in Users : GetUserContextCall(u)
    \/ \E u \in Users, m \in CtxMessages : AddMessageCall(u, m[1], m[2], m[3], m[4])
    \/ \E u \in Users : SetContextCall(u, "topic", JStr("food"))
    \/ \E u \in Users : ClearContextCall(u)
    \/ \E u \in Users : ClearUserContextCall(u)
    \/ \E d \in TickSteps : Tick(d)

SpecCtx == InitCtx /\ [][NextCtx]_vars

(***************************************************************************)
(* SpecFallback: simple_intent_fallback on every text and category list of *)
(* the model.                                                              *)
(***************************************************************************)
CategoryLists ==
    { <<Category("Food", "expense"), Category("Salary", "income"), Category("Rent", "expense")>>,
      <<Category("Salary", "income"), Category("Food", "expense")>>,
      <<Category("Fast Food", "expense"), Category("Food", "expense")>>,
      <<Category("Food", "expense"), Category("Fast Food", "expense")>>,
      <<>> }

InitFallback == InitCommon /\ maxops = MaxFallbackCalls

NextFallback ==
    \E text \in FallbackTexts, categories \in CategoryLists : FallbackCall(text, categories)

SpecFallback == InitFallback /\ [][NextFallback]_vars

(***************************************************************************)
(* SpecNlp: execute_nlp_query over the translator's answers.               *)
(***************************************************************************)
SafeVerdicts == {JTrue, JFalse, Absent, None, JStr("false")}
Explanations == {JStr("lists the amounts"), Absent}
TranslatorDocs ==
    { JObj([EmptyDict EXCEPT !["sql"] = JStr(sql), !["safe"] = safe,
                             !["explanation"] = explanation]) :
        sql \in SqlTexts, safe \in SafeVerdicts, explanation \in Explanations }
    \cup { JObj([EmptyDict EXCEPT !["safe"] = JTrue]),
           JObj([EmptyDict EXCEPT !["sql"] = None, !["safe"] = JTrue]),
           JDoc(JList(1)), NoneDoc }
TranslatorAnswers ==
    { [http |-> h, dbok |-> ok] :
        h \in {HttpJson(doc) : doc \in TranslatorDocs}
              \cup {HttpError("Timeout"), HttpStatus(500), HttpBody("not_json"),
                    HttpBody("no_choices"), HttpContent("not_json")},
        ok \in BOOLEAN }

InitNlp == InitCommon /\ maxops = MaxNlpCalls

NextNlp == \E answer \in TranslatorAnswers : NlpCall(answer)

SpecNlp == InitNlp /\ [][NextNlp]_vars

(***************************************************************************)
(* SpecFollow: turns that set last_intent, and is_follow_up calls on the   *)
(* context they leave.                                                     *)
(***************************************************************************)
FollowInputs ==
    { Remote(AddPayload(JNum(500), JStr("Food"), JStr("expense"))),
      Remote(Payload("get_summary")),
      Remote(Payload("check_budget")),
      Remote(Payload("forecast")),
      Remote([Payload("chat") EXCEPT !["message"] = JStr("hi")]),
      Remote([EmptyDict EXCEPT !["intent"] = JList(1), !["message"] = JStr("hi")]),
      Chat("hello", HttpStatus(500)) }
FollowCandidates ==
    { JStr("add_transaction"), JStr("get_summary"), JStr("predict_budget"),
      JStr("advice"), JStr("get_details"), JStr("chat"), None }

InitFollow == InitCommon /\ maxops = MaxFollowOps

NextFollow ==
    \/ \E inp \in FollowInputs : PcmGetContext("t1", inp)
    \/ PcmResolve("t1")
    \/ PcmAddUser("t1")
    \/ PcmAddAssistant("t1")
    \/ PcmReturn("t1")
    \/ \E current_intent \in FollowCandidates :
           thr["t1"].pc = "idle" /\ IsFollowUpCall("u1", current_intent)
    \/ thr["t1"].pc = "idle" /\ ClearContextCall("u1")

SpecFollow == InitFollow /\ [][NextFollow]_vars

(***************************************************************************)
(* SpecMsg: add_message calls of every kind on one context.                *)
(***************************************************************************)
MsgCalls ==
    { <<"user", JStr("hello"), JStr("get_summary"), EmptyDict>>,
      <<"user", JStr("add 500 for food"), JStr("add_transaction"),
        [EmptyDict EXCEPT !["amount"] = JNum(500), !["category"] = JStr("Food")]>>,
      <<"user", JStr("hello"), None, EmptyDict>>,
      <<"user", JStr("hello"), JStr(""), [EmptyDict EXCEPT !["amount"] = JNum(5)]>>,
      <<"assistant", JStr("summary"), None, EmptyDict>>,
      <<"assistant", JStr("summary"), JStr("advice"),
        [EmptyDict EXCEPT !["amount"] = JNum(5)]>> }

InitMsg == InitCommon /\ maxops = MaxMsgOps

NextMsg ==
    \/ GetUserContextCall("u1")
    \/ \E m \in MsgCalls : AddMessageCall("u1", m[1], m[2], m[3], m[4])
    \/ SetContextCall("u1", "topic", JStr("food"))

SpecMsg == InitMsg /\ [][NextMsg]_vars

(***************************************************************************)
(* SpecUsers: the requests of two users side by side, statement by         *)
(* statement: chat turns, GET and DELETE /context and direct calls on the  *)
(* contexts, with the clock running.                                       *)
(***************************************************************************)
UserInputs ==
    { Remote(AddPayload(JNum(500), JStr("Food"), JStr("expense"))),
      Chat("hello", HttpStatus(500)) }

\* one statement of thread t's chat turn
TurnStep(t) ==
    \/ \E inp \in UserInputs : PcmCheckStore(t, inp)
    \/ PcmCreate(t)
    \/ PcmRead(t)
    \/ PcmResolve(t)
    \/ PcmAddUser(t)
    \/ PcmAddAssistant(t)
    \/ PcmReturn(t)

\* one request of user u outside the chat turns
DirectCall(u) ==
    \/ GetUserContextCall(u)
    \/ \E m \in CtxMessages : AddMessageCall(u, m[1], m[2], m[3], m[4])
    \/ ClearContextCall(u)
    \/ ClearUserContextCall(u)

InitUsers ==
    /\ now = 0
    /\ store = [u \in Users |-> NoObj]
    /\ heap = [o \in ObjIds |-> NoCtx]
    /\ ops = 0
    /\ maxops = MaxUserOps
    /\ fb = FbIdle
    /\ thr = [t \in Threads |-> ThrIdle]
    /\ db = [u \in Users |-> <<>>]
    /\ nlp = NlpIdle
    /\ ret = RetIdle
    /\ serial = FALSE

NextUsers ==
    \/ TurnStep("t1")
    \/ TurnStep("t2")
    \/ DirectCall("u1")
    \/ DirectCall("u2")
    \/ Tick(3601)

SpecUsers == InitUsers /\ [][NextUsers]_vars

(***************************************************************************)
(* SpecRace: chat turns of one user on three threads, statement by         *)
(* statement, with a caller that runs them one at a time (serial) or lets  *)
(* them overlap.                                                           *)
(***************************************************************************)
RaceStep(t) ==
    \/ \E inp \in UserInputs : PcmCheckStore(t, inp)
    \/ PcmCreate(t)
    \/ PcmRead(t)
    \/ PcmResolve(t)
    \/ PcmAddUser(t)
    \/ PcmAddAssistant(t)
    \/ PcmReturn(t)

InitRace ==
    /\ now = 0
    /\ store = [u \in Users |-> NoObj]
    /\ heap = [o \in ObjIds |-> NoCtx]
    /\ ops = 0
    /\ maxops = MaxRaceTurns
    /\ fb = FbIdle
    /\ thr = [t \in Threads |-> ThrIdle]
    /\ db = [u \in Users |-> <<>>]
    /\ nlp = NlpIdle
    /\ ret = RetIdle
    /\ serial \in BOOLEAN

NextRace ==
    \/ RaceStep("t1")
    \/ RaceStep("t3")
    \/ RaceStep("t4")

SpecRace == InitRace /\ [][NextRace]_vars

(***************************************************************************)
(* forecasting.py: Python floats.  A float is an IEEE 754 binary64; the    *)
(* model holds one as a sign, the bits of its significand (most            *)
(* significant first, no leading or trailing zero, at most 53 of them) and *)
(* a binary exponent: the value is int(bits) * 2^exp.  Every operation     *)
(* computes the exact result and rounds it to nearest, ties to even.       *)
(***************************************************************************)
RECURSIVE Bits(_)
Bits(n) == IF n = 0 THEN <<>> ELSE Append(Bits(n \div 2), n % 2)

RECURSIVE BitsToInt(_)
BitsToInt(b) ==
    IF b = <<>> THEN 0 ELSE 2 * BitsToInt(SubSeq(b, 1, Len(b) - 1)) + b[Len(b)]

Zeros(k) == [i \in 1..k |-> 0]

\* Arithmetic goes limb by limb, a limb being 16 bits: the limbs of a bit
\* string, most significant first, and back
Limbs(b) ==
    LET pad == Zeros((16 - (Len(b) % 16)) % 16) \o b
    IN  [j \in 1..(Len(pad) \div 16) |-> BitsToInt(SubSeq(pad, 16 * j - 15, 16 * j))]
Unlimbs(l) ==
    [i \in 1..(16 * Len(l)) |-> (l[((i - 1) \div 16) + 1] \div 2^(15 - ((i - 1) % 16))) % 2]

RECURSIVE IntLimbs(_)
IntLimbs(n) == IF n = 0 THEN <<>> ELSE Append(IntLimbs(n \div 65536), n % 65536)

\* the limbs of int(l) * n + carry
RECURSIVE MulLimbs(_, _, _)
MulLimbs(l, n, carry) ==
    IF l = <<>> THEN IntLimbs(carry)
    ELSE Append(MulLimbs(SubSeq(l, 1, Len(l) - 1), n, (l[Len(l)] * n + carry) \div 65536),
                (l[Len(l)] * n + carry) % 65536)

\* the limbs of int(a) + int(b) + carry
RECURSIVE AddLimbs(_, _, _)
AddLimbs(a, b, carry) ==
    IF a = <<>> /\ b = <<>> THEN IntLimbs(carry)
    ELSE LET x == IF a = <<>> THEN 0 ELSE a[Len(a)]
             y == IF b = <<>> THEN 0 ELSE b[Len(b)]
         IN  Append(AddLimbs(SubSeq(a, 1, Len(a) - 1), SubSeq(b, 1, Len(b) - 1),
                             (x + y + carry) \div 65536),
                    (x + y + carry) % 65536)

\* long division of (r * 65536^Len(l) + int(l)) by d, r < d < 2^12: the
\* quotient's limbs after those of q, and the remainder
RECURSIVE DivLimbs(_, _, _, _)
DivLimbs(l, d, r, q) ==
    IF l = <<>> THEN [q |-> q, r |-> r]
    ELSE DivLimbs(Tail(l), d, (65536 * r + l[1]) % d, Append(q, (65536 * r + l[1]) \div d))

MulBits(b, n, carry) == Unlimbs(MulLimbs(Limbs(b), n, carry))
AddBits(a, b, carry) == Unlimbs(AddLimbs(Limbs(a), Limbs(b), carry))
DivBits(b, d) ==
    LET r == DivLimbs(Limbs(b), d, 0, <<>>)
    IN  [q |-> Unlimbs(r.q), r |-> r.r]

FZero == [neg |-> FALSE, bits |-> <<>>, exp |-> 0]

\* int(b) * 2^exp without leading and trailing zero bits
Canon(b, exp) ==
    LET ones == {i \in 1..Len(b) : b[i] = 1}
        first == CHOOSE i \in ones : \A j \in ones : i <= j
        last == CHOOSE i \in ones : \A j \in ones : j <= i
    IN  IF ones = {} THEN FZero
        ELSE [neg |-> FALSE, bits |-> SubSeq(b, first, last), exp |-> exp + (Len(b) - last)]

\* -f, and f with the sign of a negative or non-negative number; a zero has
\* no sign here
FNeg(f) == IF f.bits = <<>> THEN f ELSE [f EXCEPT !.neg = ~f.neg]
WithSign(neg, f) == IF neg THEN FNeg(f) ELSE f

\* the float nearest to int(b) * 2^exp, plus a little when sticky; a tie goes
\* to the even significand
FRound(b, exp, sticky) ==
    LET c == Canon(b, exp)
        n == Len(c.bits)
        keep == SubSeq(c.bits, 1, 53)
        up == /\ c.bits[54] = 1
              /\ \/ sticky
                 \/ n > 54
                 \/ keep[53] = 1
    IN  IF n <= 53 THEN c
        ELSE Canon(IF up THEN AddBits(keep, <<1>>, 0) ELSE keep, c.exp + (n - 53))

\* float(n) of an int n >= 0
Float(n) == FRound(Bits(n), 0, FALSE)

\* limb strings of one length: the limbs of a bit string in w limbs,
\* a >= b, a - b - borrow, and 2 * l + bit
Wide(b, w) == Limbs(Zeros(16 * w - Len(b)) \o b)
GeqLimbs(a, b) ==
    a = b \/ \E i \in 1..Len(a) : a[i] > b[i] /\ \A j \in 1..(i - 1) : a[j] = b[j]
RECURSIVE SubLimbs(_, _, _)
SubLimbs(a, b, borrow) ==
    IF a = <<>> THEN <<>>
    ELSE Append(SubLimbs(SubSeq(a, 1, Len(a) - 1), SubSeq(b, 1, Len(b) - 1),
                         IF a[Len(a)] - b[Len(b)] - borrow < 0 THEN 1 ELSE 0),
                (a[Len(a)] - b[Len(b)] - borrow + 65536) % 65536)
ShiftIn(l, bit) ==
    [i \in 1..Len(l) |->
        ((2 * l[i]) % 65536) + (IF i < Len(l) THEN l[i + 1] \div 32768 ELSE bit)]

\* the dividend in place of the quotient
Undivided(f, d) == f

\* f * n and f / d for an int second operand, 0 <= n and 0 < d < 2^12
FMul(f, n) == WithSign(f.neg, FRound(MulBits(f.bits, n, 0), f.exp, FALSE))
FDiv(f, d) ==
    LET r == DivBits(f.bits \o Zeros(70), d)
    IN  WithSign(f.neg, FRound(r.q, f.exp - 70, r.r # 0))

\* f + g and f - g
FAdd(f, g) ==
    LET e == IF f.exp <= g.exp THEN f.exp ELSE g.exp
        a == f.bits \o Zeros(f.exp - e)
        b == g.bits \o Zeros(g.exp - e)
        w == ((IF Len(a) >= Len(b) THEN Len(a) ELSE Len(b)) \div 16) + 1
    IN  IF f.bits = <<>> THEN g
        ELSE IF g.bits = <<>> THEN f
        ELSE IF f.neg = g.neg THEN WithSign(f.neg, FRound(AddBits(a, b, 0), e, FALSE))
        ELSE IF GeqLimbs(Wide(a, w), Wide(b, w))
        THEN WithSign(f.neg, FRound(Unlimbs(SubLimbs(Wide(a, w), Wide(b, w), 0)), e, FALSE))
        ELSE WithSign(g.neg, FRound(Unlimbs(SubLimbs(Wide(b, w), Wide(a, w), 0)), e, FALSE))
FSub(f, g) == FAdd(f, FNeg(g))

\* f < g
FLess(f, g) == FSub(f, g).neg

\* the limbs of int(a) * int(b) for the limbs a and the bits b, which are
\* taken eight at a time
RECURSIVE MulBig(_, _)
MulBig(a, b) ==
    IF b = <<>> THEN <<>>
    ELSE AddLimbs(MulLimbs(MulBig(a, SubSeq(b, 1, Len(b) - 8)), 256, 0),
                  MulLimbs(a, BitsToInt(SubSeq(b, Len(b) - 7, Len(b))), 0), 0)

\* f * g
FTimes(f, g) ==
    WithSign(f.neg # g.neg,
             FRound(Unlimbs(MulBig(Limbs(f.bits),
                                   Zeros((8 - (Len(g.bits) % 8)) % 8) \o g.bits)),
                    f.exp + g.exp, FALSE))

\* restoring division: k more bits of the dividend n are taken into the
\* remainder r, each giving a bit of the quotient q of the division by d
DivStep(s) ==
    IF GeqLimbs(ShiftIn(s.r, s.n[1]), s.d)
    THEN [s EXCEPT !.r = SubLimbs(ShiftIn(s.r, s.n[1]), s.d, 0),
                   !.q = Append(s.q, 1), !.n = Tail(s.n)]
    ELSE [s EXCEPT !.r = ShiftIn(s.r, s.n[1]), !.q = Append(s.q, 0), !.n = Tail(s.n)]
RECURSIVE DivSteps(_, _)
DivSteps(s, k) ==
    IF k = 0 THEN s
    ELSE IF k = 1 THEN DivStep(s)
    ELSE CHOOSE t \in {DivSteps(half, k - (k \div 2)) : half \in {DivSteps(s, k \div 2)}} : TRUE

\* f / g for g # 0
FOver(f, g) ==
    LET n == f.bits \o Zeros(Len(g.bits) - Len(f.bits) + 56)
        s == DivSteps([r |-> Wide(<<>>, 4), d |-> Wide(g.bits, 4), q |-> <<>>, n |-> n],
                      Len(n))
    IN  WithSign(f.neg # g.neg,
                 FRound(s.q, f.exp - g.exp - (Len(g.bits) - Len(f.bits) + 56),
                        s.r # Wide(<<>>, 4)))

\* the square root digit by digit: k more pairs of bits of n are taken into
\* the remainder r, each giving a bit of the root p
SqrtStep(s) ==
    LET r == ShiftIn(ShiftIn(s.r, s.n[1]), s.n[2])
        t == ShiftIn(ShiftIn(s.p, 0), 1)
    IN  IF GeqLimbs(r, t)
        THEN [r |-> SubLimbs(r, t, 0), p |-> ShiftIn(s.p, 1), n |-> SubSeq(s.n, 3, Len(s.n))]
        ELSE [r |-> r, p |-> ShiftIn(s.p, 0), n |-> SubSeq(s.n, 3, Len(s.n))]
RECURSIVE SqrtSteps(_, _)
SqrtSteps(s, k) ==
    IF k = 0 THEN s
    ELSE IF k = 1 THEN SqrtStep(s)
    ELSE CHOOSE t \in {SqrtSteps(half, k - (k \div 2)) : half \in {SqrtSteps(s, k \div 2)}} : TRUE

\* math.sqrt(f) and np.sqrt(f) for f >= 0
FSqrt(f) ==
    LET k == 110 + ((f.exp + 110) % 2)
        n == Zeros((Len(f.bits) + k) % 2) \o f.bits \o Zeros(k)
        s == SqrtSteps([r |-> Wide(<<>>, 6), p |-> Wide(<<>>, 6), n |-> n], Len(n) \div 2)
    IN  FRound(Unlimbs(s.p), (f.exp - k) \div 2, s.r # Wide(<<>>, 6))

\* the comparison the wrong way round: f <= n
FLessOrEqual(f, n) == f.exp >= 0 /\ BitsToInt(f.bits \o Zeros(f.exp)) <= n

\* f > n for an int n
Floor(f) ==
    IF f.exp >= 0 THEN BitsToInt(f.bits \o Zeros(f.exp))
    ELSE BitsToInt(SubSeq(f.bits, 1, Len(f.bits) + f.exp))
FGreater(f, n) == Floor(f) > n \/ (Floor(f) = n /\ f.exp < 0)

(***************************************************************************)
(* forecasting.py: predict_budget_risk                                     *)
(***************************************************************************)
\* a budget with the month's spending of its category, in whole units
BudgetLine(spent, amount) == [spent |-> spent, amount |-> amount]

\* the body of the loop over the budgets, for a line with a non-zero amount
LineRisk(line, current_day, days_remaining) ==
    LET spent == Float(line.spent)
        daily_avg == IF current_day > 0 THEN FDiv(spent, current_day) ELSE FZero
        projected_total == FAdd(spent, FMul(daily_avg, days_remaining))
        projected_utilization == FMul(FDiv(projected_total, line.amount), 100)
    IN  [skipped |-> FALSE,
         daily_avg |-> daily_avg,
         projected_total |-> projected_total,
         projected_utilization |-> projected_utilization,
         risk |-> IF FGreater(projected_utilization, 120) THEN 100
                  ELSE IF FGreater(projected_utilization, 100) THEN 80
                  ELSE IF FGreater(projected_utilization, 90) THEN 60
                  ELSE IF FGreater(projected_utilization, 80) THEN 40
                  ELSE 20]

Skipped == [skipped |-> TRUE]

RECURSIVE SumSeq(_)
SumSeq(s) == IF s = <<>> THEN 0 ELSE s[1] + SumSeq(Tail(s))

IsScored(l) == ~l.skipped

\* the sum in place of the mean
sum_as_risk(risk_scores) == [num |-> SumSeq(risk_scores), den |-> 1]

\* avg_risk = sum(risk_scores) / len(risk_scores) if risk_scores else 0, a
\* quotient of two small ints, held as that fraction
avg_risk(risk_scores) ==
    IF risk_scores # <<>> THEN [num |-> SumSeq(risk_scores), den |-> Len(risk_scores)]
    ELSE [num |-> 0, den |-> 1]
IsHighRisk(l) == ~l.skipped /\ l.risk >= 60

\* predict_budget_risk over the user's budgets on a day of a month: what each
\* pass of the loop computed, and the dictionary returned
predict_budget_risk(budgets, current_day, days_in_month) ==
    LET days_remaining == days_in_month - current_day
        lines == [i \in 1..Len(budgets) |->
                    IF budgets[i].amount = 0 THEN Skipped
                    ELSE LineRisk(budgets[i], current_day, days_remaining)]
        scored == SelectSeq(lines, IsScored)
        risk_scores == [i \in 1..Len(scored) |-> scored[i].risk]
        avg == avg_risk(risk_scores)
    IN  IF budgets = <<>>
        THEN [lines |-> <<>>,
              result |-> [risk_score |-> [num |-> 0, den |-> 1], risk_level |-> "none",
                          message |-> "No budgets set up."]]
        ELSE [lines |-> lines,
              result |-> [risk_score |-> avg,
                          risk_level |-> IF avg.num >= 80 * avg.den THEN "critical"
                                         ELSE IF avg.num >= 60 * avg.den THEN "high"
                                         ELSE IF avg.num >= 40 * avg.den THEN "medium"
                                         ELSE "low",
                          high_risk_categories |-> SelectSeq(lines, IsHighRisk),
                          total_budgets |-> Len(budgets),
                          days_remaining |-> days_remaining]]

\* predict_budget_risk(user_id) is called once, with the budgets and the
\* spending the database holds and the day the clock shows
PredictBudgetRiskReturn(budgets, current_day, days_in_month, r) ==
    /\ ret = RetIdle
    /\ ret' = [fn |-> "predict_budget_risk",
               args |-> [budgets |-> budgets, current_day |-> current_day,
                         days_in_month |-> days_in_month],
               result |-> r.result,
               lines |-> r.lines]
    /\ UNCHANGED <<ctxVars, ops, maxops, fb, thr, db, nlp, serial>>
PredictBudgetRiskCall(budgets, current_day, days_in_month) ==
    \E r \in {predict_budget_risk(budgets, current_day, days_in_month)} :
        PredictBudgetRiskReturn(budgets, current_day, days_in_month, r)

(***************************************************************************)
(* SpecRisk: predict_budget_risk over budget lists and days of the month.  *)
(***************************************************************************)
SpentAmounts == {0, 100, 225, 800, 900, 1300}
BudgetAmounts == {0, 1000}
BudgetLines == {BudgetLine(s, a) : s \in SpentAmounts, a \in BudgetAmounts}
RECURSIVE SeqsUpTo(_, _)
SeqsUpTo(S, n) ==
    IF n = 0 THEN {<<>>}
    ELSE SeqsUpTo(S, n - 1) \cup {Append(s, x) : s \in SeqsUpTo(S, n - 1), x \in S}
\* <<current_day, days_in_month>>
RiskDates == {<<1, 31>>, <<3, 30>>, <<7, 28>>, <<20, 30>>, <<30, 30>>}

InitRisk == InitCommon /\ maxops = 0

NextRisk ==
    \E budgets \in SeqsUpTo(BudgetLines, MaxBudgets), date \in RiskDates :
        PredictBudgetRiskCall(budgets, date[1], date[2])

SpecRisk == InitRisk /\ [][NextRisk]_vars

(***************************************************************************)
(* forecasting.py: the estimators and forecast_next_month.  A series is a  *)
(* list of floats, oldest month first.  The int 0 an estimator returns is  *)
(* the float 0 here (0 == 0.0), and a division by zero is the result       *)
(* ZeroDivisionError.  sum() adds from the left; np.sum adds the first     *)
(* element to the sum of the others, which are added from the left when    *)
(* there are fewer than eight of them and in eight running sums otherwise. *)
(* The message texts of the results are left out.                          *)
(***************************************************************************)
ZeroDivisionError == [raised |-> "ZeroDivisionError"]

\* the rows of the query without its limit: every month of the user
every_month(totals, scale, months) ==
    [i \in 1..Len(totals) |-> FDiv(Float(totals[i]), scale)]

\* the rows of the query: the totals of the last months months, oldest
\* first, each float(r.total) of a total of totals[i] / scale
get_historical_data(totals, scale, months) ==
    LET first == IF Len(totals) > months THEN Len(totals) - months + 1 ELSE 1
    IN  [i \in 1..(Len(totals) - first + 1) |-> FDiv(Float(totals[first + i - 1]), scale)]

\* sum(data)
RECURSIVE FSum(_)
FSum(data) ==
    IF data = <<>> THEN FZero
    ELSE FAdd(FSum(SubSeq(data, 1, Len(data) - 1)), data[Len(data)])

\* np.sum(a) of at most 16 floats
RECURSIVE SumFrom(_, _)
SumFrom(acc, a) == IF a = <<>> THEN acc ELSE SumFrom(FAdd(acc, a[1]), Tail(a))
PairwiseSum(a) ==
    IF Len(a) < 8 THEN SumFrom(FZero, a)
    ELSE SumFrom(FAdd(FAdd(FAdd(a[1], a[2]), FAdd(a[3], a[4])),
                      FAdd(FAdd(a[5], a[6]), FAdd(a[7], a[8]))),
                 SubSeq(a, 9, Len(a)))
NpSum(a) == IF a = <<>> THEN FZero ELSE FAdd(a[1], PairwiseSum(Tail(a)))
NpMean(a) == FDiv(NpSum(a), Len(a))

\* f as it is, in place of max(0, f)
Unclamped(f) == f

\* max(0, f)
NonNegative(f) == IF FLess(FZero, f) THEN f ELSE FZero

\* the sum of a short series divided by the window, not by its length
windowed_average(data, window) ==
    IF window = 0 THEN ZeroDivisionError
    ELSE IF data = <<>> THEN FZero
    ELSE FDiv(FSum(data), window)

\* window >= 0; data[-0:] is the whole list
simple_moving_average(data, window) ==
    IF Len(data) < window
    THEN IF data # <<>> THEN FDiv(FSum(data), Len(data)) ELSE FZero
    ELSE IF window = 0 THEN ZeroDivisionError
    ELSE FDiv(FSum(SubSeq(data, Len(data) - window + 1, Len(data))), window)

\* the loop of exponential_smoothing over the values left
RECURSIVE Smooth(_, _, _)
Smooth(values, alpha, forecast) ==
    IF values = <<>> THEN forecast
    ELSE Smooth(Tail(values), alpha,
                FAdd(FTimes(alpha, values[1]), FTimes(FSub(Float(1), alpha), forecast)))

\* no smoothing: the last value as it is
unsmoothed(data, alpha) == data[Len(data)]

exponential_smoothing(data, alpha) ==
    IF data = <<>> THEN FZero
    ELSE IF Len(data) = 1 THEN data[1]
    ELSE Smooth(Tail(data), alpha, data[1])

\* the denominator is 0 for no series of two points or more
linear_trend_forecast(data, periods_ahead) ==
    IF Len(data) < 2 THEN (IF data # <<>> THEN data[1] ELSE FZero)
    ELSE LET n == Len(data)
             x == [i \in 1..n |-> Float(i - 1)]
             x_mean == NpMean(x)
             y_mean == NpMean(data)
             numerator == NpSum([i \in 1..n |->
                              FTimes(FSub(x[i], x_mean), FSub(data[i], y_mean))])
             denominator == NpSum([i \in 1..n |->
                                FTimes(FSub(x[i], x_mean), FSub(x[i], x_mean))])
             slope == FOver(numerator, denominator)
             intercept == FSub(y_mean, FTimes(slope, x_mean))
             forecast == FAdd(intercept, FTimes(slope, Float(n + periods_ahead - 1)))
         IN  IF denominator = FZero THEN y_mean ELSE NonNegative(forecast)

\* period >= 0
seasonal_decomposition(data, period) ==
    IF Len(data) < period * 2
    THEN [trend |-> simple_moving_average(data, 3), seasonal |-> FZero,
          forecast |-> simple_moving_average(data, 3)]
    ELSE LET trend == simple_moving_average(data, period)
             detrended == [i \in 1..Len(data) |-> FSub(data[i], trend)]
             seasonal == IF Len(detrended) >= period
                         THEN FDiv(FSum(SubSeq(detrended, Len(detrended) - period + 1,
                                               Len(detrended))), period)
                         ELSE FZero
         IN  IF trend = ZeroDivisionError THEN ZeroDivisionError
             ELSE [trend |-> trend, seasonal |-> seasonal,
                   forecast |-> NonNegative(FAdd(trend, seasonal))]

\* the dict forecasts of forecast_next_month as its <<key, value>> pairs, in
\* the order they are put in
forecasts(data, method) ==
    (IF method \in {"auto", "sma"}
     THEN << <<"sma", simple_moving_average(data, 3)>> >> ELSE <<>>)
    \o (IF method \in {"auto", "ema"}
        THEN << <<"ema", exponential_smoothing(data, FDiv(Float(3), 10))>> >> ELSE <<>>)
    \o (IF method \in {"auto", "linear"}
        THEN << <<"linear", linear_trend_forecast(data, 1)>> >> ELSE <<>>)
    \o (IF method \in {"auto", "seasonal"} /\ Len(data) >= 6
        THEN << <<"seasonal",
                  seasonal_decomposition(data, IF Len(data) < 12 THEN Len(data) ELSE 12).forecast>> >>
        ELSE <<>>)

\* d.values() and d.get(key, default) of such a dict
Values(d) == [i \in 1..Len(d) |-> d[i][2]]
DictGet(d, key, default) ==
    IF \E i \in 1..Len(d) : d[i][1] = key
    THEN d[CHOOSE i \in 1..Len(d) : d[i][1] = key][2]
    ELSE default

\* np.var(data)
NpVar(data) ==
    LET arrmean == NpMean(data)
    IN  NpMean([i \in 1..Len(data) |->
                   FTimes(FSub(data[i], arrmean), FSub(data[i], arrmean))])

\* the confidence of a series of the coefficient of variation cv
Confidence(cv) ==
    IF FLess(cv, FDiv(Float(2), 10)) THEN "high"
    ELSE IF FLess(cv, FDiv(Float(5), 10)) THEN "medium"
    ELSE "low"

forecast_next_month(data, method) ==
    IF data = <<>>
    THEN [forecast |-> FZero, method |-> "no_data", confidence |-> "low"]
    ELSE IF Len(data) < 3
    THEN [forecast |-> FDiv(FSum(data), Len(data)), method |-> "average",
          confidence |-> "low"]
    ELSE LET f == forecasts(data, method)
             variance == NpVar(data)
             mean == NpMean(data)
             cv == IF FLess(FZero, mean) THEN FOver(FSqrt(variance), mean) ELSE FZero
         IN  [forecast |-> IF method = "auto" THEN FDiv(FSum(Values(f)), Len(f))
                           ELSE DictGet(f, method, DictGet(f, "sma", FZero)),
              method |-> IF method = "auto" THEN "ensemble" ELSE method,
              confidence |-> Confidence(cv),
              historical_data |-> data,
              variance |-> variance,
              mean |-> mean]

\* forecast_next_month(user_id, tx_type, method) is called once; the
\* database holds the monthly totals totals[i] / scale of the user
ForecastReturn(totals, scale, method, result) ==
    /\ ret = RetIdle
    /\ ret' = [fn |-> "forecast_next_month",
               args |-> [data |-> totals, scale |-> scale, method |-> method],
               result |-> result]
    /\ UNCHANGED <<ctxVars, ops, maxops, fb, thr, db, nlp, serial>>
ForecastCall(totals, scale, method) ==
    ForecastReturn(totals, scale, method,
                   forecast_next_month(get_historical_data(totals, scale, 12), method))

(***************************************************************************)
(* SpecForecast: forecast_next_month over every mode, for the short series *)
(* of a few whole totals and for some longer series, <<totals, scale>>.    *)
(***************************************************************************)
MonthlyTotals == {100, 250, 400}
Modes == {"auto", "sma", "ema", "linear", "seasonal"}
LongSeries ==
    {<<(<<1000, 1100, 1050>>), 1>>,
     <<(<<0, 0, 0>>), 1>>,
     <<(<<80, 80, 120, 120>>), 1>>,
     <<(<<50, 50, 150, 150>>), 1>>,
     <<(<<323, 323, 323, 323, 323>>), 100>>,
     <<(<<25, 13, 10, 9, 7>>), 1>>,
     <<(<<100, 250, 400, 100, 250, 400>>), 1>>,
     <<(<<900, 700, 650, 400, 300, 100, 50>>), 1>>,
     <<(<<120, 130, 110, 140, 150, 125, 135, 160, 145, 155, 170, 165>>), 1>>,
     <<(<<999, 120, 130, 110, 140, 150, 125, 135, 160, 145, 155, 170, 165>>), 1>>}
ForecastInputs ==
    ({<<data, 1>> : data \in SeqsUpTo(MonthlyTotals, MaxMonths)} \cup LongSeries)
        \X (Modes \cup {"median"})

InitForecast == InitCommon /\ maxops = 0

NextForecast == \E inp \in ForecastInputs : ForecastCall(inp[1][1], inp[1][2], inp[2])

SpecForecast == InitForecast /\ [][NextForecast]_vars

(***************************************************************************)
(* SpecEstimators: the four estimators called on their own, once, on the   *)
(* series totals[i] / scale of up to MaxPoints points, with windows and    *)
(* periods from 0 and smoothing factors num / den.                         *)
(***************************************************************************)
Series(totals, scale) == [i \in 1..Len(totals) |-> FDiv(Float(totals[i]), scale)]

EstimatorCall(fn, totals, scale, param, result) ==
    /\ ret = RetIdle
    /\ ret' = [fn |-> fn,
               args |-> [data |-> totals, scale |-> scale, param |-> param],
               result |-> result]
    /\ UNCHANGED <<ctxVars, ops, maxops, fb, thr, db, nlp, serial>>

SmaCall(totals, scale, window) ==
    EstimatorCall("simple_moving_average", totals, scale, window,
                  simple_moving_average(Series(totals, scale), window))

EmaCall(totals, scale, alpha) ==
    EstimatorCall("exponential_smoothing", totals, scale, alpha,
                  exponential_smoothing(Series(totals, scale), FDiv(Float(alpha[1]), alpha[2])))

LinearCall(totals, scale, periods_ahead) ==
    EstimatorCall("linear_trend_forecast", totals, scale, periods_ahead,
                  linear_trend_forecast(Series(totals, scale), periods_ahead))

SeasonalCall(totals, scale, period) ==
    EstimatorCall("seasonal_decomposition", totals, scale, period,
                  seasonal_decomposition(Series(totals, scale), period))

PointTotals == {0, 105, 900}
Scales == {1, 8}
Alphas == {<<3, 10>>, <<1, 2>>, <<1, 1>>}

InitEstimators == InitCommon /\ maxops = 0

NextEstimators ==
    \E totals \in SeqsUpTo(PointTotals, MaxPoints), scale \in Scales :
        \/ \E window \in 0..MaxWindow : SmaCall(totals, scale, window)
        \/ \E alpha \in Alphas : EmaCall(totals, scale, alpha)
        \/ \E periods_ahead \in 0..MaxWindow : LinearCall(totals, scale, periods_ahead)
        \/ \E period \in 0..MaxWindow : SeasonalCall(totals, scale, period)

SpecEstimators == InitEstimators /\ [][NextEstimators]_vars

(***************************************************************************)
(* forecasting.py: get_spending_insights.  A category of the user is its   *)
(* name, the sum of its expenses of the current month and the sums of its  *)
(* expenses month by month, the current month included, all in hundredths. *)
(* The second query takes the average of a sum, an aggregate of an         *)
(* aggregate, which most databases reject and some accept: nested says     *)
(* which of the two the database of the deployment does.                   *)
(***************************************************************************)
TopN == 5

\* the rows of the first query: the categories by falling sum of the
\* current month, at most TopN of them; no two sums are equal
RECURSIVE ByCurrentSpend(_)
ByCurrentSpend(cats) ==
    IF cats = {} THEN <<>>
    ELSE LET top == CHOOSE c \in cats : \A d \in cats : d.total <= c.total
         IN  <<top>> \o ByCurrentSpend(cats \ {top})
CurrentMonthRows(cats) ==
    LET rows == ByCurrentSpend(cats)
    IN  SubSeq(rows, 1, IF Len(rows) < TopN THEN Len(rows) ELSE TopN)

\* float(hist_avg) for the average of the monthly sums, and float(total)
HistAvg(c) == FDiv(Float(SumSeq(c.months)), 100 * Len(c.months))
CurrentTotal(c) == FDiv(Float(c.total), 100)

\* abs(f)
FAbs(f) == [f EXCEPT !.neg = FALSE]

\* ((total - hist_avg) / hist_avg) * 100
ChangePct(total, hist_avg) == FMul(FOver(FSub(total, hist_avg), hist_avg), 100)

IsMaterial(change_pct) == FLess(Float(20), FAbs(change_pct))

\* the insights the loop appends for the rows left
RECURSIVE InsightsOf(_)
InsightsOf(rows) ==
    IF rows = <<>> THEN <<>>
    ELSE LET total == CurrentTotal(rows[1])
             hist_avg == HistAvg(rows[1])
             change_pct == ChangePct(total, hist_avg)
         IN  (IF FLess(FZero, hist_avg) /\ IsMaterial(change_pct)
              THEN <<[category |-> rows[1].name, current |-> total, average |-> hist_avg,
                      change_pct |-> change_pct,
                      trend |-> IF FLess(FZero, change_pct) THEN "up" ELSE "down"]>>
              ELSE <<>>)
             \o InsightsOf(Tail(rows))

get_spending_insights(cats, nested) ==
    IF CurrentMonthRows(cats) = <<>> THEN [raised |-> "", insights |-> <<>>]
    ELSE IF nested = "rejected" THEN [raised |-> "DatabaseError", insights |-> <<>>]
    ELSE [raised |-> "", insights |-> InsightsOf(CurrentMonthRows(cats))]

\* get_spending_insights(user_id) is called once for a user with the
\* categories cats
InsightsCall(cats, nested) ==
    /\ ret = RetIdle
    /\ ret' = [fn |-> "get_spending_insights",
               args |-> [cats |-> cats, nested |-> nested],
               result |-> get_spending_insights(cats, nested)]
    /\ UNCHANGED <<ctxVars, ops, maxops, fb, thr, db, nlp, serial>>

(***************************************************************************)
(* SpecInsights: get_spending_insights for the users whose categories are  *)
(* some of eight, on a database of either kind.                            *)
(***************************************************************************)
CategorySpend(name, total, months) == [name |-> name, total |-> total, months |-> months]
UserCategories ==
    {CategorySpend("Food", 260000, <<140000, 260000>>),
     CategorySpend("Rent", 240000, <<160000, 240000>>),
     CategorySpend("Travel", 210000, <<190000, 210000>>),
     CategorySpend("Fun", 50000, <<150000, 50000>>),
     CategorySpend("Books", 30000, <<30000>>),
     CategorySpend("Gifts", 5000, <<15000, 5000>>),
     CategorySpend("Snacks", 42, <<28, 42>>),
     CategorySpend("Free", 0, <<0>>)}

InitInsights == InitCommon /\ maxops = 0

NextInsights ==
    \E cats \in SUBSET UserCategories, nested \in {"rejected", "accepted"} :
        InsightsCall(cats, nested)

SpecInsights == InitInsights /\ [][NextInsights]_vars

(***************************************************************************)
(* SpecTx: update_transaction and delete_transaction called once, for      *)
(* either user, on tables that hold recent and old transactions of both.   *)
(* The exception handler of the two functions turns a failure into a       *)
(* reply; before keeps the tables as they were when the call was made.     *)
(***************************************************************************)
\* a transaction of the category made days_ago days ago
TxRow(amount, category_id, days_ago) ==
    [amount |-> JNum(amount), category_id |-> category_id, description |-> JStr("hello"),
     date |-> 0 - days_ago * 86400, type |-> JStr("expense")]
\* category 1 is Food and category 3 is Rent, as load_categories has them
TxTables ==
    {[u1 |-> rows1, u2 |-> rows2] :
        rows1 \in {<<>>,
                   <<TxRow(500, 1, 3)>>,
                   <<TxRow(300, 3, 1)>>,
                   <<TxRow(500, 1, 3), TxRow(300, 3, 1)>>,
                   <<TxRow(500, 3, 40), TxRow(500, 1, 3)>>,
                   <<TxRow(500, 3, 40), TxRow(500, 1, 3),
                     TxRow(300, 3, 1)>>},
        rows2 \in {<<>>, <<TxRow(500, 1, 2)>>}}
TxAmounts == {None, JNum(500), JNum(300)}
TxCategoryNames == {None, JStr("Food"), JStr("Rent"), JStr("Travel")}

TxCall(fn, u, amount, new_amount, category_name, h) ==
    /\ ret = RetIdle
    /\ db' = [db EXCEPT ![u] = h.rows]
    /\ ret' = [fn |-> fn,
               args |-> [user_id |-> u, amount |-> amount, new_amount |-> new_amount,
                         category_name |-> category_name],
               result |-> h.response,
               before |-> db]
    /\ UNCHANGED <<ctxVars, ops, maxops, fb, thr, nlp, serial>>

DeleteCall(u, amount, category_name) ==
    TxCall("delete_transaction", u, amount, None, category_name,
           delete_transaction(amount, category_name, u, db[u]))

UpdateCall(u, old_amount, new_amount, category_name) ==
    TxCall("update_transaction", u, old_amount, new_amount, category_name,
           update_transaction(old_amount, new_amount, category_name, u, db[u]))

InitTx ==
    /\ now = 0
    /\ store = [u \in Users |-> NoObj]
    /\ heap = [o \in ObjIds |-> NoCtx]
    /\ ops = 0
    /\ maxops = 0
    /\ fb = FbIdle
    /\ thr = [t \in Threads |-> ThrIdle]
    /\ db \in TxTables
    /\ nlp = NlpIdle
    /\ ret = RetIdle
    /\ serial = TRUE

NextTx ==
    \E u \in Users, amount \in TxAmounts, category_name \in TxCategoryNames :
        \/ DeleteCall(u, amount, category_name)
        \/ UpdateCall(u, amount, JNum(700), category_name)

SpecTx == InitTx /\ [][NextTx]_vars

(***************************************************************************)
(* Properties of the message log and of the context store                  *)
(***************************************************************************)
\* the step of one context object's message log: untouched, emptied (the
\* object is created or collected), or one entry appended at the end, the
\* oldest entry going when the log was full
LogStep(o) ==
    LET old == heap[o].messages
        new == heap'[o].messages
    IN  \/ new = old
        \/ new = <<>>
        \/ /\ new # <<>>
           /\ IF Len(old) < 10
              THEN new = Append(old, new[Len(new)])
              ELSE new = Append(Tail(old), new[Len(new)])

\* C1: over add_message calls and process_chat_message turns a context's
\* message log never holds more than 10 entries, and an append to a full log
\* drops exactly the oldest entry, the others keeping their order.
C1_LogBoundedFifo ==
    [][\A o \in ObjIds : Len(heap'[o].messages) <= 10 /\ LogStep(o)]_vars

\* C1 witness: a full log whose oldest entry is an assistant's message; every
\* log starts with a user's message, so its first entries have been dropped.
C1_LogOverflowed ==
    \E o \in ObjIds : /\ Len(heap[o].messages) = 10
                      /\ heap[o].messages[1].role = "assistant"

\* C2: every get_user_context call made more than 3600 seconds after the
\* context's session_start, whatever the elapsed time (a day or more included),
\* resets context_data, last_intent and last_entities, sets session_start to the
\* access time and keeps the message log; a call within the hour resets nothing.
C2_ExpiryForAnyElapsedTime ==
    [][\A u \in Users :
          (HasCtx(u) /\ GetUserContextCall(u)) =>
              /\ store'[u] = store[u]
              /\ heap'[store[u]] =
                   IF now - Ctx(u).session_start > 3600
                   THEN [clear_context(Ctx(u)) EXCEPT !.session_start = now]
                   ELSE Ctx(u)]_vars

(***************************************************************************)
(* Properties of process_chat_message                                      *)
(***************************************************************************)
\* the thread has left the remote and fallback stages and the intent's handler
Resolving(t) == thr[t].pc \in {"add_user", "add_assistant", "done", "raised"}
\* the call is over: the response is returned, or an exception left the function
CallOver(t) == thr[t].pc \in {"done", "raised"}

\* the remote stage fails: a timeout or another transport failure, a non-200
\* response, a body that is no JSON or lacks choices/message/content, or a
\* content that is no JSON document
RemoteFailed(resp) ==
    \/ resp.error # ""
    \/ resp.status # 200
    \/ resp.body # "ok"
    \/ resp.content # "json"

\* C3: every process_chat_message call, however its intent was resolved and
\* whether or not the handler succeeded, ends with the user's message and then
\* the assistant's response as the two newest entries of the user's log.
C3_EveryTurnLogged ==
    \A t \in Threads :
        CallOver(t) =>
            LET log == Ctx(ThreadUser(t)).messages
                n == Len(log)
            IN  /\ HasCtx(ThreadUser(t))
                /\ n >= 2
                /\ log[n - 1].role = "user"
                /\ log[n - 1].content = JStr(thr[t].input.text)
                /\ log[n].role = "assistant"
                /\ log[n].content = thr[t].response

\* the intent the turn works on is add_transaction
AddTurn(t) ==
    /\ Resolving(t)
    /\ IsDict(thr[t].ai)
    /\ Get(thr[t].ai.d, "intent", None) = JStr("add_transaction")

\* the amount is a positive number
PositiveNumber(x) == x.t = "num" /\ ~NotPositive(x)

\* the category name matches, case-insensitively, a category of the user whose
\* type is the transaction's type
CategoryMatches(name, tx_type, u) ==
    /\ name.t = "str"
    /\ \E i \in 1..Len(load_categories(u)) :
           /\ JStr(load_categories(u)[i].type) = tx_type
           /\ Lower(Strip(Chars(load_categories(u)[i].name))) = Lower(Strip(Chars(name.s)))

\* the payload passes the validation gate
PassesGate(d, u) ==
    /\ PositiveNumber(Get(d, "amount", None))
    /\ CategoryMatches(Get(d, "category", None), Get(d, "type", JStr("expense")), u)

\* C4: a turn with intent add_transaction writes a transaction only if the
\* amount is a positive number and the category matches a category of the user
\* of the transaction's type; in every other case nothing is written and the
\* turn's reply is a message (any text other than the confirmation counts).
C4_ValidationGate ==
    \A t \in Threads :
        AddTurn(t) =>
            /\ thr[t].wrote => PassesGate(thr[t].ai.d, ThreadUser(t))
            /\ ~thr[t].wrote => /\ thr[t].response.t = "str"
                                /\ thr[t].response # JStr("Recorded.")

\* C5: when an add_transaction intent fails the validation gate, the turn the
\* context records has intent chat and last_intent is not add_transaction.
C5_GateFailureDowngrades ==
    \A t \in Threads :
        (AddTurn(t) /\ thr[t].pc = "done" /\ ~PassesGate(thr[t].ai.d, ThreadUser(t))) =>
            LET c == heap[thr[t].ctx]
            IN  /\ c.messages[Len(c.messages) - 1].intent = JStr("chat")
                /\ c.last_intent # JStr("add_transaction")

(***************************************************************************)
(* Properties of execute_nlp_query                                         *)
(***************************************************************************)
\* the translation failed: the request failed or its answer is no JSON object
TranslationFailed(resp) == RemoteFailed(resp) \/ ~IsDict(resp.doc)

\* the query text holds one of the eight keywords, in any letter case
HasDangerousKeyword(d) ==
    /\ Get(d, "sql", None).t = "str"
    /\ \E i \in 1..Len(dangerous_keywords) :
           Contains(Upper(Chars(Get(d, "sql", None).s)), Chars(dangerous_keywords[i]))

\* C6: execute_nlp_query makes no database call and returns success=false with
\* an explanation whenever the translation failed, the translator's verdict is
\* not safe=true, or the query text holds a dangerous keyword.
C6_NeverExecutesUnsafe ==
    (/\ nlp.called
     /\ \/ TranslationFailed(nlp.answer.http)
        \/ Get(nlp.answer.http.doc.d, "safe", Absent) # JTrue
        \/ HasDangerousKeyword(nlp.answer.http.doc.d))
    => /\ ~nlp.result.executed
       /\ ~nlp.result.success
       /\ nlp.result.error.t = "str"

(***************************************************************************)
(* Properties of the remote stage and of the fallback stage                *)
(***************************************************************************)
\* C7: on a timeout, any other transport failure, a non-200 response, content
\* that is no JSON, or a body without choices/message/content, no exception
\* leaves ask_ai_for_intent, its result is None and simple_intent_fallback
\* decides the turn; and the fallback stage runs only when the remote stage
\* failed or delivered an empty value (null, {}, [], 0, "").
C7_RemoteFailureFallsBack ==
    \A t \in Threads :
        Resolving(t) =>
            /\ RemoteFailed(thr[t].input.http) =>
                   /\ ask_ai_for_intent(thr[t].input.http) = [raised |-> "", doc |-> NoneDoc]
                   /\ thr[t].raised = ""
                   /\ thr[t].fallback_ran
                   /\ thr[t].ai = simple_intent_fallback(thr[t].input.text,
                                                         load_categories(ThreadUser(t)))
            /\ thr[t].fallback_ran =>
                   \/ RemoteFailed(thr[t].input.http)
                   \/ ~Truthy(thr[t].input.http.doc.v)

\* C7 witness: the remote stage failed and the turn goes on with the intent
\* the fallback stage found.
C7_FallbackDecided ==
    \E t \in Threads :
        /\ thr[t].pc = "done"
        /\ RemoteFailed(thr[t].input.http)
        /\ thr[t].fallback_ran
        /\ thr[t].intent = JStr("add_transaction")

\* the intents the prompt allows the classifier to answer
IntentVocabulary ==
    {"add_transaction", "update_transaction", "delete_transaction", "get_summary",
     "get_monthly_total_income", "get_monthly_total_expense", "forecast_expense",
     "forecast_income", "predict_expense", "check_budget", "budget_status",
     "predict_budget", "budget_risk", "savings_goals", "spending_insights", "nlp_query",
     "advice", "chat", "invalid_category"}

\* the document is no object, has no intent, or has an intent outside the vocabulary
DeviatesFromSchema(doc) ==
    \/ ~IsDict(doc)
    \/ Get(doc.d, "intent", Absent) \notin {JStr(i) : i \in IntentVocabulary}

\* C8: a remote payload that parses as JSON but deviates from the intent schema
\* counts as a classification failure: the fallback stage decides the intent.
C8_SchemaDeviationIsFailure ==
    \A t \in Threads :
        (/\ Resolving(t)
         /\ ~RemoteFailed(thr[t].input.http)
         /\ DeviatesFromSchema(thr[t].input.http.doc))
        => /\ thr[t].fallback_ran
           /\ thr[t].raised = ""
           /\ thr[t].ai = simple_intent_fallback(thr[t].input.text,
                                                 load_categories(ThreadUser(t)))

\* the classes one of whose keywords occurs in the lower-cased text
MatchingClasses(text) == {c \in 1..6 : ClassMatches(c, Lower(Chars(text)))}
\* those of them whose block returns a result
DecidingClasses(text, categories) ==
    {c \in MatchingClasses(text) :
        ClassBlock(c, text, Lower(Chars(text)), categories) # NoResult}
Least(S) == CHOOSE c \in S : \A d \in S : c <= d

\* C9 as stated: the first class, in the order update, delete, add, summary,
\* budget, forecast, one of whose keywords occurs in the text alone determines
\* the result; no later class is consulted.
C9_FirstKeywordClassDecides ==
    fb.called =>
        IF MatchingClasses(fb.text) = {} THEN fb.result = NoneDoc
        ELSE \E r \in {ClassBlock(Least(MatchingClasses(fb.text)), fb.text,
                                  Lower(Chars(fb.text)), fb.categories)} :
                 fb.result = IF r = NoResult THEN NoneDoc ELSE r

\* C9 amended: the classes are consulted in that order and the first class one
\* of whose keywords occurs AND whose block returns a result determines it; a
\* block returns nothing only for the update class on a text without a numeric
\* token and for the add class on a text with neither a numeric token nor a
\* category name, and the scan then goes on to the later classes.
C9_FirstReturningClassDecides ==
    fb.called =>
        /\ IF DecidingClasses(fb.text, fb.categories) = {} THEN fb.result = NoneDoc
           ELSE fb.result = ClassBlock(Least(DecidingClasses(fb.text, fb.categories)),
                                       fb.text, Lower(Chars(fb.text)), fb.categories)
        /\ \A c \in MatchingClasses(fb.text) \ DecidingClasses(fb.text, fb.categories) :
               \/ c = 1 /\ NumberTokens(Chars(fb.text)) = <<>>
               \/ /\ c = 3
                  /\ NumberTokens(Chars(fb.text)) = <<>>
                  /\ \A i \in 1..Len(fb.categories) :
                         ~Contains(Lower(Chars(fb.text)), Lower(Chars(fb.categories[i].name)))

\* C9 witness: a keyword of the update class occurs, its block returns nothing,
\* and a later class decides.
C9_LaterClassDecided ==
    /\ fb.called
    /\ 1 \in MatchingClasses(fb.text)
    /\ 1 \notin DecidingClasses(fb.text, fb.categories)
    /\ IsDict(fb.result)
    /\ Get(fb.result.d, "intent", None) = JStr("check_budget")

\* the text gets to the add/spend class: one of its keywords occurs, and the
\* update and delete classes have not returned
ReachesAddClass(text, categories) ==
    /\ 3 \in MatchingClasses(text)
    /\ DecidingClasses(text, categories) \cap {1, 2} = {}
\* the listed categories whose name occurs in the lower-cased text
NamedCategories(text, categories) ==
    {i \in 1..Len(categories) :
        Contains(Lower(Chars(text)), Lower(Chars(categories[i].name)))}

\* C10: for a text that gets to the add/spend class, the result is an
\* add_transaction intent exactly when a numeric token and a category name are
\* both found, with the first numeric token as amount and the first listed
\* category named in the text as category and type; when exactly one of the two
\* is found it is a chat intent whose message asks for the missing one.
C10_AddNeedsAmountAndCategory ==
    (fb.called /\ ReachesAddClass(fb.text, fb.categories)) =>
        \E amounts \in {NumberTokens(Chars(fb.text))},
           named \in {NamedCategories(fb.text, fb.categories)} :
            /\ IsDict(fb.result) /\ Get(fb.result.d, "intent", None) = JStr("add_transaction")
                   <=> (amounts # <<>> /\ named # {})
            /\ (amounts # <<>> /\ named # {}) =>
                   /\ Get(fb.result.d, "amount", None) = ParseFloat(amounts[1])
                   /\ Get(fb.result.d, "category", None) = JStr(fb.categories[Least(named)].name)
                   /\ Get(fb.result.d, "type", None) = JStr(fb.categories[Least(named)].type)
            /\ (amounts # <<>> /\ named = {}) =>
                   /\ Get(fb.result.d, "intent", None) = JStr("chat")
                   /\ Get(fb.result.d, "message", None) = JStr("add: specify the category")
            /\ (amounts = <<>> /\ named # {}) =>
                   /\ Get(fb.result.d, "intent", None) = JStr("chat")
                   /\ Get(fb.result.d, "message", None) = JStr("add: specify the amount")

\* C10 witness: a text with a numeric token and no category name got to the
\* add/spend class and the result asks for the category.
C10_AskedForCategory ==
    /\ fb.called
    /\ ReachesAddClass(fb.text, fb.categories)
    /\ NumberTokens(Chars(fb.text)) # <<>>
    /\ NamedCategories(fb.text, fb.categories) = {}
    /\ fb.categories # <<>>
    /\ Get(fb.result.d, "intent", None) = JStr("chat")

\* the text holds a delete/remove/cancel verb and no verb of the update class
DeleteOnlyText(text) == 2 \in MatchingClasses(text) /\ 1 \notin MatchingClasses(text)

\* C11: a text with a delete/remove/cancel verb and no update-class verb always
\* yields delete_transaction, with the first numeric token as a float for
\* amount (None without one) and the first listed category named in the text
\* for category (None without one); "delete the 500 transaction" gives 500.0
\* and None.
C11_DeleteExtractsAmountAndCategory ==
    (fb.called /\ DeleteOnlyText(fb.text)) =>
        \E amounts \in {NumberTokens(Chars(fb.text))},
           named \in {NamedCategories(fb.text, fb.categories)} :
            /\ IsDict(fb.result)
            /\ DictLen(fb.result.d) = 3
            /\ fb.result.d["intent"] = JStr("delete_transaction")
            /\ fb.result.d["amount"] =
                   IF amounts = <<>> THEN None ELSE ParseFloat(amounts[1])
            /\ fb.result.d["category"] =
                   IF named = {} THEN None ELSE JStr(fb.categories[Least(named)].name)
            /\ fb.text = "delete the 500 transaction" =>
                   fb.result.d["amount"] = JNum(500) /\ fb.result.d["category"] = None

\* C11 witness: the fallback has answered "delete the 500 transaction".
C11_DeletedTheFiveHundred ==
    /\ fb.called
    /\ fb.text = "delete the 500 transaction"
    /\ DeleteOnlyText(fb.text)
    /\ Get(fb.result.d, "intent", None) = JStr("delete_transaction")

(***************************************************************************)
(* Properties of ConversationContext                                       *)
(***************************************************************************)
\* C12: is_follow_up(candidate) returns true exactly when last_intent is not
\* null and the table lists candidate under last_intent, false when there is
\* no prior intent or no table entry for it, and the call leaves the context
\* as it was.
C12_FollowUpIffListed ==
    [][ret' # ret /\ ret'.fn = "is_follow_up" =>
           /\ heap' = heap /\ store' = store
           /\ ret'.result.raised = ""
           /\ ret'.result.value =
                  (/\ ret'.args.context.last_intent # None
                   /\ ret'.args.current_intent \in PatternsFor(ret'.args.context.last_intent))]_vars

\* C13: clear_context empties context_data and last_entities and sets
\* last_intent to null; the message log, session_start and user_id stay as
\* they were.
C13_ClearContextKeepsLog ==
    [][\A u \in Users :
          (HasCtx(u) /\ ClearContextCall(u)) =>
              /\ heap'[store[u]].context_data = EmptyDict
              /\ heap'[store[u]].last_intent = None
              /\ heap'[store[u]].last_entities = EmptyDict
              /\ heap'[store[u]].messages = Ctx(u).messages
              /\ heap'[store[u]].session_start = Ctx(u).session_start
              /\ heap'[store[u]].user_id = Ctx(u).user_id
              /\ store' = store]_vars

\* C13 witness: before any time has passed, a context holds a user's message
\* with an intent in its log and no last_intent and no context data any more:
\* clear_context has run on it.
C13_ClearedWithLog ==
    \E u \in Users :
        /\ HasCtx(u)
        /\ now = 0
        /\ \E i \in 1..Len(Ctx(u).messages) :
               Ctx(u).messages[i].role = "user" /\ Truthy(Ctx(u).messages[i].intent)
        /\ Ctx(u).last_intent = None
        /\ Ctx(u).context_data = EmptyDict

\* C14: add_message sets last_intent and last_entities to the given intent and
\* entities exactly when the role is 'user' and the intent is not empty; for
\* any other message last_intent, last_entities and context_data stay as they
\* were and only the log grows, by the message given.
C14_AddMessageSetsIntentForUser ==
    [][\A m \in MsgCalls :
          AddMessageCall("u1", m[1], m[2], m[3], m[4]) =>
              \E old \in {Ctx("u1")}, new \in {heap'[store["u1"]]} :
                  /\ IF m[1] = "user" /\ m[3] \notin {None, JStr("")}
                     THEN new.last_intent = m[3] /\ new.last_entities = m[4]
                     ELSE /\ new.last_intent = old.last_intent
                          /\ new.last_entities = old.last_entities
                  /\ new.context_data = old.context_data
                  /\ new.session_start = old.session_start
                  /\ new.user_id = old.user_id
                  /\ Len(new.messages) = Len(old.messages) + 1
                  /\ SubSeq(new.messages, 1, Len(old.messages)) = old.messages
                  /\ new.messages[Len(new.messages)].role = m[1]
                  /\ new.messages[Len(new.messages)].content = m[2]
                  /\ new.messages[Len(new.messages)].intent = m[3]
                  /\ new.messages[Len(new.messages)].entities = m[4]]_vars

\* C14 witness: the newest entry of a log is an assistant's message that came
\* with an intent and entities, and last_intent and last_entities are still
\* those of the user's message before it.
C14_AssistantIntentIgnored ==
    /\ HasCtx("u1")
    /\ Len(Ctx("u1").messages) >= 2
    /\ Ctx("u1").messages[Len(Ctx("u1").messages)].role = "assistant"
    /\ Ctx("u1").messages[Len(Ctx("u1").messages)].intent = JStr("advice")
    /\ Ctx("u1").last_intent = JStr("add_transaction")
    /\ Ctx("u1").last_entities["amount"] = JNum(500)

\* a request made for user u takes a step
StepOf(u) ==
    \/ \E t \in Threads : ThreadUser(t) = u /\ TurnStep(t)
    \/ DirectCall(u)

\* what user u has in the store: the entry, the context it names, and the
\* contexts the user's own turns hold
UserView(u) ==
    [entry |-> store[u],
     context |-> IF HasCtx(u) THEN Ctx(u) ELSE NoCtx,
     held |-> {<<t, thr[t].ctx, heap[thr[t].ctx]>> :
                 t \in {x \in Threads : ThreadUser(x) = u /\ thr[x].ctx # NoObj}}]

\* C15: a step of a request made for one user (a statement of its chat turn,
\* get_user_context, add_message, clear_context or clear_user_context) leaves
\* every other user's store entry and context, with its message log,
\* last_intent, last_entities, context_data and session_start, as they were,
\* whatever the other user's requests are doing at that moment.
C15_UsersAreIsolated ==
    [][\A a \in Users : StepOf(a) => \A b \in Users \ {a} : UserView(b)' = UserView(b)]_vars

\* both users' turns are in flight at once, each having written its user
\* message to its own context, and the two logs differ
C15_TwoTurnsInFlight ==
    /\ thr["t1"].pc = "add_assistant"
    /\ thr["t2"].pc = "add_assistant"
    /\ HasCtx("u1") /\ HasCtx("u2")
    /\ store["u1"] # store["u2"]
    /\ Len(Ctx("u1").messages) = 1
    /\ Len(Ctx("u2").messages) = 1
    /\ Ctx("u1").messages # Ctx("u2").messages

\* the log of u's stored context has a user message directly followed by
\* another user message instead of the response of its own turn
InterleavedLog(u) ==
    /\ HasCtx(u)
    /\ \E i \in 1..(Len(Ctx(u).messages) - 1) :
           Ctx(u).messages[i].role = "user" /\ Ctx(u).messages[i + 1].role = "user"

\* a turn of u has written messages to a context object that is no longer
\* the one the store holds for u: they are lost when the turn returns
LostWrites(u) ==
    \E t \in Threads :
        /\ ThreadUser(t) = u
        /\ thr[t].ctx # NoObj
        /\ thr[t].ctx # store[u]
        /\ heap[thr[t].ctx].messages # <<>>

\* C16: when the caller runs the chat turns of one user one at a time, the
\* stored log never has a user message that is not directly followed by the
\* response of its own turn, and no turn writes to a context object that the
\* store no longer holds; turns that overlap reach both kinds of state.
C16_SerialTurnsStayPaired ==
    serial => ~InterleavedLog("u1") /\ ~LostWrites("u1")

\* overlapping turns: one turn's messages went to a context that a racing
\* first-time get_user_context replaced, and two other turns interleaved
\* their user messages in the stored log
C16_RacedTurns ==
    /\ ~serial
    /\ LostWrites("u1")
    /\ InterleavedLog("u1")

(***************************************************************************)
(* Properties of predict_budget_risk                                       *)
(***************************************************************************)
\* the risk the formulas give in exact arithmetic: with daily_avg =
\* spent / current_day and projected_total = spent + daily_avg *
\* (days_in_month - current_day), projected_total / amount * 100 exceeds p
\* exactly when spent * days_in_month * 100 > p * current_day * amount
ExactRisk(line, current_day, days_in_month) ==
    LET scaled == IF current_day > 0 THEN line.spent * days_in_month * 100
                  ELSE line.spent * 100
        unit == IF current_day > 0 THEN current_day * line.amount ELSE line.amount
    IN  IF scaled > 120 * unit THEN 100
        ELSE IF scaled > 100 * unit THEN 80
        ELSE IF scaled > 90 * unit THEN 60
        ELSE IF scaled > 80 * unit THEN 40
        ELSE 20

RiskCalled == ret.fn = "predict_budget_risk"

\* C17: every budget line with a non-zero amount gets the risk that
\* daily_avg = spent / current_day, projected_total = spent + daily_avg *
\* (days_in_month - current_day) and the strict thresholds 120, 100, 90 and 80
\* on projected_total / amount * 100 give; budget 1000 with 900 spent on day
\* 20 of a 30-day month has daily_avg 45, projected_total 1350 and risk 100.
C17_LineRiskFollowsFormulas ==
    RiskCalled =>
        \A i \in 1..Len(ret.args.budgets) :
            LET line == ret.args.budgets[i] IN
            line.amount # 0 =>
                /\ ~ret.lines[i].skipped
                /\ ret.lines[i].risk
                       = ExactRisk(line, ret.args.current_day, ret.args.days_in_month)
                /\ (line = BudgetLine(900, 1000) /\ ret.args.current_day = 20
                        /\ ret.args.days_in_month = 30)
                   => /\ ret.lines[i].daily_avg = Float(45)
                      /\ ret.lines[i].projected_total = Float(1350)
                      /\ ret.lines[i].risk = 100

\* C18: in one call (one day of one month), of two lines with the same
\* non-zero budget amount the one with the larger spending never has the
\* smaller risk, and a line with nothing spent and a positive budget has
\* risk 20.
C18_RiskMonotoneInSpending ==
    RiskCalled =>
        \A i, j \in 1..Len(ret.args.budgets) :
            LET a == ret.args.budgets[i]
                b == ret.args.budgets[j]
            IN  /\ (a.amount > 0 /\ a.amount = b.amount /\ a.spent <= b.spent)
                       => ret.lines[i].risk <= ret.lines[j].risk
                /\ (a.amount > 0 /\ a.spent = 0) => ret.lines[i].risk = 20

\* two lines of the same budget, one with nothing spent scoring 20 and one
\* with more spent scoring more
C18_IdleAndOverspentLine ==
    /\ RiskCalled
    /\ Len(ret.args.budgets) = 2
    /\ ret.args.budgets[1] = BudgetLine(0, 1000)
    /\ ret.args.budgets[2] = BudgetLine(900, 1000)
    /\ ret.lines[1].risk = 20
    /\ ret.lines[2].risk > 20

\* the positions of the lines with a non-zero budget amount
ScoredLines == {i \in 1..Len(ret.args.budgets) : ret.args.budgets[i].amount # 0}

RECURSIVE RiskSum(_)
RiskSum(S) ==
    IF S = {} THEN 0
    ELSE LET i == CHOOSE x \in S : TRUE IN ret.lines[i].risk + RiskSum(S \ {i})

\* the returned score is the mean of the scores of the lines with a non-zero
\* budget amount, 0 when there is none
ScoreIsMean ==
    IF ScoredLines = {} THEN ret.result.risk_score.num = 0
    ELSE ret.result.risk_score.num * Cardinality(ScoredLines)
             = RiskSum(ScoredLines) * ret.result.risk_score.den

\* the level that goes with the returned score
LevelOfScore ==
    LET score == ret.result.risk_score
    IN  IF score.num >= 80 * score.den THEN "critical"
        ELSE IF score.num >= 60 * score.den THEN "high"
        ELSE IF score.num >= 40 * score.den THEN "medium"
        ELSE "low"

\* the lines with a zero budget amount are passed over and are not in the
\* high-risk list, which has the scored lines of risk 60 and more
ZeroBudgetsSkipped ==
    /\ \A i \in 1..Len(ret.args.budgets) : ret.lines[i].skipped <=> i \notin ScoredLines
    /\ Len(ret.result.high_risk_categories)
           = Cardinality({i \in ScoredLines : ret.lines[i].risk >= 60})
    /\ \A k \in 1..Len(ret.result.high_risk_categories) :
           ~ret.result.high_risk_categories[k].skipped

\* C19 as stated: for every list of budget lines, the empty one included, the
\* score is the mean of the scores of the lines with a non-zero budget (0 when
\* there is none), the level is critical from 80, high from 60, medium from 40
\* and low below, and zero-budget lines are skipped.
C19_ScoreAndLevelForAnyBudgets ==
    RiskCalled =>
        /\ ScoreIsMean
        /\ ret.result.risk_level = LevelOfScore
        /\ ret.args.budgets # <<>> => ZeroBudgetsSkipped

\* C19, amended: the same for every non-empty list of budget lines; with no
\* budget line at all the score is 0 and the level is none.
C19_ScoreAndLevelForSomeBudgets ==
    RiskCalled =>
        /\ ScoreIsMean
        /\ ret.args.budgets # <<>> => ret.result.risk_level = LevelOfScore /\ ZeroBudgetsSkipped
        /\ ret.args.budgets = <<>> => ret.result.risk_level = "none"

\* a zero-budget line with spending next to a scored line: the score is the
\* scored line's alone
C19_ZeroBudgetLineSkipped ==
    /\ RiskCalled
    /\ Len(ret.args.budgets) = 2
    /\ ret.args.budgets[1] = BudgetLine(1300, 0)
    /\ ret.args.budgets[2].amount # 0
    /\ ret.lines[2].risk = 60
    /\ ret.result.risk_score = [num |-> 60, den |-> 1]
    /\ ret.result.risk_level = "high"
    /\ Len(ret.result.high_risk_categories) = 1

(***************************************************************************)
(* Properties of forecast_next_month                                       *)
(***************************************************************************)
ForecastCalled == ret.fn = "forecast_next_month"

\* C20: whatever mode is requested, forecast_next_month returns forecast 0,
\* method no_data and confidence low for an empty series, and the arithmetic
\* mean of the series, method average and confidence low for a series of one
\* or two months.
C20_ShortSeriesAreAveraged ==
    ForecastCalled =>
        LET data == ret.args.data IN
        /\ data = <<>> =>
               /\ ret.result.forecast = FZero
               /\ ret.result.method = "no_data"
               /\ ret.result.confidence = "low"
        /\ Len(data) \in {1, 2} =>
               /\ FMul(ret.result.forecast, Len(data)) = Float(SumSeq(data))
               /\ ret.result.method = "average"
               /\ ret.result.confidence = "low"

\* two months of different totals, asked for in linear mode, are averaged
C20_TwoMonthsInLinearMode ==
    /\ ForecastCalled
    /\ ret.args.data = <<100, 250>>
    /\ ret.args.method = "linear"
    /\ ret.result.forecast = Float(175)
    /\ ret.result.method = "average"
    /\ ret.result.confidence = "low"


\* the series forecast_next_month worked on in the call that returned
SeriesOfCall == get_historical_data(ret.args.data, ret.args.scale, 12)

\* the estimator outputs auto mode computes for a series of three points or
\* more
EstimatorOutputs(data) ==
    <<simple_moving_average(data, 3),
      exponential_smoothing(data, FDiv(Float(3), 10)),
      linear_trend_forecast(data, 1)>>
    \o (IF Len(data) >= 6
        THEN <<seasonal_decomposition(data, IF Len(data) < 12 THEN Len(data) ELSE 12).forecast>>
        ELSE <<>>)

\* f is the mean of the outputs
IsMeanOf(f, outputs) == f = FDiv(FSum(outputs), Len(outputs))

\* f lies between the smallest and the largest of the outputs
WithinRange(f, outputs) ==
    /\ \E i \in 1..Len(outputs) : ~FLess(f, outputs[i])
    /\ \E i \in 1..Len(outputs) : ~FLess(outputs[i], f)

\* C21: for a series of at least 3 points in auto mode, forecast_next_month
\* reports method ensemble and the unweighted mean of exactly the outputs
\* computed (sma of window 3, ema of alpha 0.3, linear 1 ahead, and seasonal
\* of period min(12, length) iff length >= 6); the value lies between the
\* smallest and the largest of those outputs.
C21_EnsembleIsMeanWithinRange ==
    (ForecastCalled /\ ret.args.method = "auto" /\ Len(SeriesOfCall) >= 3) =>
        \E outputs \in {EstimatorOutputs(SeriesOfCall)} :
            /\ ret.result.method = "ensemble"
            /\ IsMeanOf(ret.result.forecast, outputs)
            /\ WithinRange(ret.result.forecast, outputs)

\* the part of C21 about the method and the mean alone
C21_EnsembleIsMean ==
    (ForecastCalled /\ ret.args.method = "auto" /\ Len(SeriesOfCall) >= 3) =>
        \E outputs \in {EstimatorOutputs(SeriesOfCall)} :
            /\ ret.result.method = "ensemble"
            /\ IsMeanOf(ret.result.forecast, outputs)

\* the value of the estimator a mode names, for a series of three points or
\* more: the window-3 moving average stands in for a seasonal estimate that
\* is not computed
NamedEstimate(data, method) ==
    CASE method = "sma" -> simple_moving_average(data, 3)
      [] method = "ema" -> exponential_smoothing(data, FDiv(Float(3), 10))
      [] method = "linear" -> linear_trend_forecast(data, 1)
      [] method = "seasonal" ->
             IF Len(data) >= 6
             THEN seasonal_decomposition(data, IF Len(data) < 12 THEN Len(data) ELSE 12).forecast
             ELSE simple_moving_average(data, 3)

\* C22: for a series of at least 3 points and a named mode (sma, ema,
\* linear, seasonal), forecast_next_month returns the value of that
\* estimator, and the window-3 moving average when the named estimator was
\* not computed (seasonal with fewer than 6 points).
C22_NamedModeReturnsItsEstimator ==
    (ForecastCalled /\ ret.args.method \in {"sma", "ema", "linear", "seasonal"}
                    /\ Len(SeriesOfCall) >= 3) =>
        \E data \in {SeriesOfCall} :
            /\ ret.result.method = ret.args.method
            /\ ret.result.forecast = NamedEstimate(data, ret.args.method)

\* the same for the calls in which the named estimator is computed
C22_ComputedEstimatorIsReturned ==
    (ForecastCalled /\ ret.args.method \in {"sma", "ema", "linear", "seasonal"}
                    /\ Len(SeriesOfCall) >= 3
                    /\ (ret.args.method = "seasonal" => Len(SeriesOfCall) >= 6)) =>
        \E data \in {SeriesOfCall} :
            /\ ret.result.method = ret.args.method
            /\ ret.result.forecast = NamedEstimate(data, ret.args.method)

\* the call of the scenario: three months of 1000, 1100 and 1050, auto mode
ScenarioCalled ==
    /\ ForecastCalled
    /\ ret.args.data = <<1000, 1100, 1050>>
    /\ ret.args.scale = 1
    /\ ret.args.method = "auto"

\* f is tenths / 10 to the one decimal given
About(f, tenths) ==
    /\ ~FLess(f, FDiv(Float(2 * tenths - 1), 20))
    /\ FLess(f, FDiv(Float(2 * tenths + 1), 20))

\* C23: for the series [1000, 1100, 1050] in auto mode, the moving average
\* is 1050, exponential smoothing (alpha 0.3, seeded with the first point)
\* gives 1036, the linear trend gives 1100, no seasonal estimate is
\* computed, the ensemble value is their mean, 1062, and the confidence is
\* high.
C23_ScenarioGives1062 ==
    ScenarioCalled =>
        \E outputs \in {EstimatorOutputs(SeriesOfCall)} :
            /\ outputs = <<Float(1050), Float(1036), Float(1100)>>
            /\ ret.result.forecast = Float(1062)
            /\ ret.result.method = "ensemble"
            /\ ret.result.confidence = "high"

\* the scenario has been run and has given the ensemble value 1062
C23_ScenarioRun == ScenarioCalled /\ ret.result.forecast = Float(1062)

\* C23 as stated: exponential smoothing gives about 1034.5, the linear trend
\* about 1083.3 and the ensemble about 1055.9
C23_ScenarioGives1055 ==
    ScenarioCalled =>
        \E outputs \in {EstimatorOutputs(SeriesOfCall)} :
            /\ Len(outputs) = 3
            /\ outputs[1] = Float(1050)
            /\ About(outputs[2], 10345)
            /\ About(outputs[3], 10833)
            /\ About(ret.result.forecast, 10559)
            /\ ret.result.method = "ensemble"
            /\ ret.result.confidence = "high"

\* the totals of the last twelve months of the call, as the database holds
\* them
TotalsOfCall ==
    SubSeq(ret.args.data,
           IF Len(ret.args.data) > 12 THEN Len(ret.args.data) - 11 ELSE 1,
           Len(ret.args.data))

\* the sum of the squares of len(data) * x - sum(data) over the totals x
RECURSIVE SquaredDeviations(_, _, _)
SquaredDeviations(data, n, total) ==
    IF data = <<>> THEN 0
    ELSE (n * data[1] - total) * (n * data[1] - total)
             + SquaredDeviations(Tail(data), n, total)

\* CV < 1/k in exact arithmetic, for CV = population standard deviation /
\* mean and CV = 0 when the mean is 0:
\* variance / mean^2 = SquaredDeviations / (n * total^2)
CvBelow(data, k) ==
    \/ SumSeq(data) <= 0
    \/ k * k * SquaredDeviations(data, Len(data), SumSeq(data))
           < Len(data) * SumSeq(data) * SumSeq(data)

\* CV = 1/k
CvIs(data, k) ==
    /\ SumSeq(data) > 0
    /\ k * k * SquaredDeviations(data, Len(data), SumSeq(data))
           = Len(data) * SumSeq(data) * SumSeq(data)

ConfidenceOfCv(data) ==
    IF CvBelow(data, 5) THEN "high" ELSE IF CvBelow(data, 2) THEN "medium" ELSE "low"

\* C24: for a series of at least 3 points, the confidence depends only on
\* the coefficient of variation CV = population standard deviation / mean:
\* high if CV < 0.2, medium if 0.2 <= CV < 0.5, low if CV >= 0.5; a mean of
\* 0 is treated as CV = 0 and gives high.
C24_ConfidenceFollowsCV ==
    (ForecastCalled /\ Len(TotalsOfCall) >= 3) =>
        ret.result.confidence = ConfidenceOfCv(TotalsOfCall)

\* the same for the series whose CV is neither 0.2 nor 0.5
C24_ConfidenceAwayFromThresholds ==
    (ForecastCalled /\ Len(TotalsOfCall) >= 3
                    /\ ~CvIs(TotalsOfCall, 5) /\ ~CvIs(TotalsOfCall, 2)) =>
        ret.result.confidence = ConfidenceOfCv(TotalsOfCall)

(***************************************************************************)
(* Properties of the estimators                                            *)
(***************************************************************************)
EstimatorCalled ==
    ret.fn \in {"simple_moving_average", "exponential_smoothing",
                "linear_trend_forecast", "seasonal_decomposition"}

\* the series the estimator was called on
SeriesOfEstimator == Series(ret.args.data, ret.args.scale)

\* what the call gave: the forecast of a decomposition, the value returned
\* by another estimator, or the exception raised
Estimate ==
    IF ret.result = ZeroDivisionError THEN ZeroDivisionError
    ELSE IF ret.fn = "seasonal_decomposition" THEN ret.result.forecast
    ELSE ret.result

\* the estimate of a series of at most one point: 0, or the point itself
DegenerateEstimate(data) == IF data = <<>> THEN FZero ELSE data[1]

C26_ForecastsAreNonNegative ==
    (/\ ret.fn \in {"linear_trend_forecast", "seasonal_decomposition"}
     /\ ret.args.param >= 1) =>
        /\ Estimate # ZeroDivisionError
        /\ ~Estimate.neg

\* the line fitted to the falling series [900, 105, 0] is below zero one
\* month ahead, and the forecast returned is 0
C26_FallingSeriesClamped ==
    /\ ret.fn = "linear_trend_forecast"
    /\ ret.args = [data |-> <<900, 105, 0>>, scale |-> 1, param |-> 1]
    /\ ret.result = FZero

(***************************************************************************)
(* Properties of get_spending_insights                                     *)
(***************************************************************************)
InsightsCalled == ret.fn = "get_spending_insights"

\* n * current - sum of the months: the sign and size of the change of a
\* category against its average, in exact arithmetic
ChangeTimesSum(c) == Len(c.months) * c.total - SumSeq(c.months)
Magnitude(n) == IF n < 0 THEN 0 - n ELSE n

\* the categories that are to get an insight: among the TopN by current
\* spend, with an average > 0 and a change of more than 20 % of it
\* (|current - average| / average > 1/5)
MaterialCategories(cats) ==
    {c \in cats :
        /\ \E i \in 1..Len(CurrentMonthRows(cats)) : CurrentMonthRows(cats)[i] = c
        /\ SumSeq(c.months) > 0
        /\ 5 * Magnitude(ChangeTimesSum(c)) > SumSeq(c.months)}

\* the insights are those of the categories of the set S, one each, with
\* the trend up exactly for a rise
InsightsAreFor(insights, S) ==
    /\ Len(insights) = Cardinality(S)
    /\ \A c \in S : \E i \in 1..Len(insights) :
           /\ insights[i].category = c.name
           /\ insights[i].trend = IF ChangeTimesSum(c) > 0 THEN "up" ELSE "down"

\* C27: get_spending_insights emits an insight for a category iff it is
\* among the top 5 by current-month spend, its historical average is > 0
\* and |change_pct| > 20 strictly, for change_pct = (current - average) /
\* average * 100; the trend is up exactly when change_pct > 0 and down
\* otherwise; at most 5 insights are returned.
C27_InsightsFollowMateriality ==
    InsightsCalled =>
        /\ ret.result.raised = ""
        /\ Len(ret.result.insights) <= 5
        /\ InsightsAreFor(ret.result.insights, MaterialCategories(ret.args.cats))

\* the same on a database that accepts the average of a sum, for users
\* without the category Snacks, whose change is exactly 20 %
C27_OnAcceptingDatabase ==
    (/\ InsightsCalled
     /\ ret.args.nested = "accepted"
     /\ \A c \in ret.args.cats : c.name # "Snacks") =>
        /\ ret.result.raised = ""
        /\ Len(ret.result.insights) <= 5
        /\ InsightsAreFor(ret.result.insights, MaterialCategories(ret.args.cats))

(***************************************************************************)
(* Properties of update_transaction and delete_transaction                 *)
(***************************************************************************)
TxCalled == ret.fn \in {"update_transaction", "delete_transaction"}

\* the rows of before that the call deleted or changed, by their place: for
\* a delete, a place whose removal gives after
AffectedRows(fn, before, after) ==
    IF after = before THEN {}
    ELSE IF fn = "delete_transaction"
    THEN {i \in 1..Len(before) :
             after = SubSeq(before, 1, i - 1) \o SubSeq(before, i + 1, Len(before))}
    ELSE {i \in 1..Len(before) : Len(after) = Len(before) /\ after[i] # before[i]}

\* the row is of the category of that name of the user
InCategory(row, u, category_name) ==
    /\ CategoryId(u, category_name.s, AllTypes) # 0
    /\ row.category_id = CategoryId(u, category_name.s, AllTypes)

\* C28: when a category name is passed to delete_transaction or
\* update_transaction, the transaction deleted or updated belongs to that
\* category, and none is deleted or changed if the user has no category of
\* that name; at most one transaction is affected per call and it belongs
\* to the requesting user.
C28_OnlyTheNamedCategoryIsTouched ==
    TxCalled =>
        LET u == ret.args.user_id
            affected == AffectedRows(ret.fn, ret.before[u], db[u])
        IN  /\ \A v \in Users \ {u} : db[v] = ret.before[v]
            /\ db[u] # ret.before[u] => Cardinality(affected) = 1
            /\ Truthy(ret.args.category_name) =>
                   \A i \in affected : InCategory(ret.before[u][i], u, ret.args.category_name)

\* the parts of C28 that do not depend on the category name
C28_OneRowOfTheUser ==
    TxCalled =>
        LET u == ret.args.user_id
            affected == AffectedRows(ret.fn, ret.before[u], db[u])
        IN  /\ \A v \in Users \ {u} : db[v] = ret.before[v]
            /\ db[u] # ret.before[u] => Cardinality(affected) = 1
            /\ (Truthy(ret.args.category_name)
                /\ CategoryId(u, ret.args.category_name.s, AllTypes) # 0) =>
                   \A i \in affected : InCategory(ret.before[u][i], u, ret.args.category_name)

(***************************************************************************)
(* Properties of clear_user_context                                        *)
(***************************************************************************)
\* C29: clear_user_context (DELETE /context) removes the user's whole
\* context from the store, message log included, and leaves the contexts of
\* the other users alone; the next get_user_context for that user returns a
\* fresh context with an empty log, null last_intent, empty last_entities
\* and context_data and a new session_start; clearing a user who has no
\* context changes nothing.
C29_ClearUserContextRemovesAll ==
    [][\A u \in Users :
          /\ ClearUserContextCall(u) =>
                 /\ store'[u] = NoObj
                 /\ \A v \in Users \ {u} :
                        /\ store'[v] = store[v]
                        /\ HasCtx(v) => heap'[store'[v]] = Ctx(v)
                 /\ ~HasCtx(u) => (store' = store /\ heap' = heap)
          /\ (~HasCtx(u) /\ GetUserContextCall(u)) =>
                 /\ store'[u] # NoObj
                 /\ heap'[store'[u]] =
                        [user_id |-> u, messages |-> <<>>, context_data |-> EmptyDict,
                         last_intent |-> None, last_entities |-> EmptyDict,
                         session_start |-> now']]_vars

\* u1 has no context and u2 holds the second object with a message in its
\* log: u1 had the first object, and clear_user_context has removed it
C29_ClearedBesideALog ==
    /\ store["u1"] = NoObj
    /\ store["u2"] = 2
    /\ Len(Ctx("u2").messages) > 0
    /\ heap[1] = NoCtx

(***************************************************************************)
(* Properties of the seasonal estimate inside forecast_next_month          *)
(***************************************************************************)
\* the period forecast_next_month passes for a series: min(12, len(data))
PeriodOf(data) == IF Len(data) < 12 THEN Len(data) ELSE 12

\* a call of forecast_next_month whose series has six points or more
SeasonalComputed ==
    /\ ForecastCalled
    /\ ret.result.method \notin {"no_data", "average"}
    /\ Len(ret.result.historical_data) >= 6

\* the sum of the four estimates in the order of the dict, over 4
MeanOfFour(sma, ema, linear) == FDiv(FSum(<<sma, ema, linear, sma>>), 4)

\* (2 * sma + ema + linear) / 4 as one float expression
WeightedOfThree(sma, ema, linear) == FDiv(FAdd(FAdd(FMul(sma, 2), ema), linear), 4)

\* C30: inside forecast_next_month the series has at most 12 points and the
\* period is min(12, length), so length < 2 * period and the decomposition
\* takes its degraded branch: whenever a seasonal estimate is computed
\* (length 6 to 12) it is the window-3 moving average of the series with a
\* seasonal component of 0, and the auto ensemble is the mean of the four
\* estimates sma, ema, linear and sma again, added in that order.
C30_SeasonalIsMovingAverage ==
    ForecastCalled /\ ret.result.method \notin {"no_data", "average"} =>
        \E data \in {ret.result.historical_data} :
            /\ Len(data) <= 12
            /\ Len(data) < 2 * PeriodOf(data)
            /\ Len(data) >= 6 =>
                   \E sma \in {simple_moving_average(data, 3)} :
                       /\ seasonal_decomposition(data, PeriodOf(data)) =
                              [trend |-> sma, seasonal |-> FZero, forecast |-> sma]
                       /\ ret.args.method = "seasonal" => ret.result.forecast = sma
                       /\ ret.args.method = "auto" =>
                              ret.result.forecast =
                                  MeanOfFour(sma, exponential_smoothing(data, FDiv(Float(3), 10)),
                                             linear_trend_forecast(data, 1))

\* a user with thirteen months of totals has asked for the ensemble, which
\* was computed with a seasonal estimate
C30_ThirteenMonthsEnsemble ==
    /\ SeasonalComputed
    /\ Len(ret.args.data) = 13
    /\ ret.args.method = "auto"
    /\ ret.result.method = "ensemble"

\* C30 as stated: the ensemble of a series of six points or more is the float
\* (2 * sma + ema + linear) / 4
C30_EnsembleIsWeightedOfThree ==
    SeasonalComputed /\ ret.args.method = "auto" =>
        \E data \in {ret.result.historical_data} :
            ret.result.forecast =
                WeightedOfThree(simple_moving_average(data, 3),
                                exponential_smoothing(data, FDiv(Float(3), 10)),
                                linear_trend_forecast(data, 1))

====
